---- MODULE Spec2Model ----
(***************************************************************************)
(* Microsoft Foundry API handler (MicrosoftFoundryHandler): client         *)
(* provisioning, request shaping, streaming event normalisation, tool-call *)
(* reassembly, error classification and the retry wrapper around           *)
(* createMessage; getModel; the deployment discovery and selection of the  *)
(* provider settings view (MicrosoftFoundryProvider); the debounced model  *)
(* refresh and the custom headers of the Azure OpenAI settings view        *)
(* (AzureOpenAIProvider); and the deployment service                       *)
(* (getMicrosoftFoundryDeployments) in its ARM and its CLI variant.        *)
(*                                                                         *)
(* Strings on which the code performs string operations (includes,         *)
(* startsWith, toLowerCase, concatenation) are modelled as sequences of    *)
(* one-character strings, so that those operations are computed.  Prices   *)
(* are in hundredths (0.15 is 15), the temperature in tenths (0.7 is 7).   *)
(* A JavaScript object is a record; a property that is absent (undefined)  *)
(* is a field that is not in the record's DOMAIN.                          *)
(***************************************************************************)
EXTENDS Integers, Sequences, FiniteSets, TLC

VARIABLES
    options,        \* this.options of the handler
    client,         \* this.client: <<>> (undefined) or <<the client>>
    clientsBuilt,   \* number of AzureOpenAI clients constructed
    calls,          \* number of createMessage calls made by the caller
    pc,             \* position of the current createMessage call
    attempt,        \* 0-based attempt number of the retry wrapper
    args,           \* arguments of the current call
    request,        \* <<>> or <<params>> of the last chat.completions.create
    providerCalls,  \* chat.completions.create calls made in the current call
    backoffs,       \* backoff delays slept in the current call
    chunksSeen,     \* chunks pulled from the provider stream in this attempt
    toolState,      \* the ToolCallProcessor of this attempt
    outbox,         \* events of the current chunk not yet yielded
    delivered,      \* events the caller has received in the current call
    caught,         \* <<>> or <<raw exception>> caught by a catch block
    surfaced,       \* <<>> or <<error>> thrown to the caller
    stream,         \* the provider stream of this attempt: "none", "open",
                    \* "ended" (by the provider) or "released" (by the loop)
    other,          \* the locals of the createMessage call of a second caller
    model,          \* <<>> or <<result of the last getModel call>>
    deployments,    \* settings view: the discovered deployments
    discoveryError, \* settings view: <<>> (null) or <<message>>
    apiConfiguration, \* settings views: the stored provider configuration
    mounted,        \* Azure OpenAI view: the component is mounted
    debounceTimerRef, \* Azure OpenAI view: <<>> (null) or <<timer id>>
    timers,         \* Azure OpenAI view: the timers set and not yet run
    timersSet,      \* Azure OpenAI view: number of setTimeout calls made
    refreshRequests, \* Azure OpenAI view: refreshOpenAiModels requests issued
    lastChange,     \* Azure OpenAI view: <<>> or <<the last change of the
                    \* endpoint or API key and the time since it>>
    armPc,          \* deployment service: position of the running call
    deploymentsRequest, \* deployment service: the request of the call
    armLocals,      \* deployment service: the locals of the running call
    externalCalls,  \* deployment service: the calls made to the credential,
                    \* to fetch and to the command line in this call
    deploymentsResult \* deployment service: <<>> or <<what the call
                    \* returned or threw>>

vars == << options, client, clientsBuilt, calls, pc, attempt, args, request,
           providerCalls, backoffs, chunksSeen, toolState, outbox, delivered,
           caught, surfaced, stream, other, model, deployments,
           discoveryError, apiConfiguration, mounted, debounceTimerRef,
           timers, timersSet, refreshRequests, lastChange, armPc,
           deploymentsRequest, armLocals, externalCalls, deploymentsResult >>

\* The variables of the createMessage calls of the first caller
firstCallVars == << calls, pc, attempt, args, request, providerCalls, backoffs,
                    chunksSeen, toolState, outbox, delivered, caught,
                    surfaced, stream >>

\* The variables of the handler and of its callers
handlerVars == << options, client, clientsBuilt, firstCallVars, other >>

\* The variables of the provider settings view
settingsVars == << deployments, discoveryError, apiConfiguration >>

\* The variables of the Azure OpenAI settings view, but for the stored
\* configuration
azureVars == << mounted, debounceTimerRef, timers, timersSet, refreshRequests,
               lastChange >>

\* The variables of the deployment service
serviceVars == << armPc, deploymentsRequest, armLocals, externalCalls,
                 deploymentsResult >>

\* The variables outside the handler, but for the result of getModel
outsideVars == << settingsVars, azureVars, serviceVars >>

\* The variables no step of a createMessage call of the first caller changes
nonHandlerVars == << model, other, outsideVars >>

-----------------------------------------------------------------------------
(* JavaScript values *)

Has(o, f) == f \in DOMAIN o

\* o.f used as a condition, for a boolean property: absent and false are falsy
TruthyBool(o, f) == Has(o, f) /\ o[f] = TRUE

\* o.f used as a condition, for a string property: absent and "" are falsy
TruthyStr(o, f) == Has(o, f) /\ o[f] # <<>>

None == <<>>
Some(v) == << v >>
IsNone(x) == Len(x) = 0
IsSome(x) == Len(x) = 1
Val(x) == x[1]

\* { ...a, ...b }
Spread(a, b) ==
    [f \in DOMAIN a \cup DOMAIN b |-> IF f \in DOMAIN b THEN b[f] ELSE a[f]]

-----------------------------------------------------------------------------
(* String operations *)

\* String.prototype.startsWith
StartsWith(s, p) ==
    /\ Len(p) <= Len(s)
    /\ SubSeq(s, 1, Len(p)) = p

\* String.prototype.includes
Includes(s, p) ==
    \E i \in 0 .. (Len(s) - Len(p)) : SubSeq(s, i + 1, i + Len(p)) = p

UpperCase == << "A","B","C","D","E","F","G","H","I","J","K","L","M",
                "N","O","P","Q","R","S","T","U","V","W","X","Y","Z" >>
LowerCase == << "a","b","c","d","e","f","g","h","i","j","k","l","m",
                "n","o","p","q","r","s","t","u","v","w","x","y","z" >>

LowerChar(c) ==
    IF \E i \in DOMAIN UpperCase : UpperCase[i] = c
    THEN LowerCase[CHOOSE i \in DOMAIN UpperCase : UpperCase[i] = c]
    ELSE c

\* String.prototype.toLowerCase
ToLowerCase(s) == [i \in DOMAIN s |-> LowerChar(s[i])]

-----------------------------------------------------------------------------
(* Static model capabilities *)

FOUNDRY_MODEL_CAPABILITIES ==
   <<
      \* "gpt-5"
      << <<"g","p","t","-","5">>,
         [maxTokens |-> 32768, contextWindow |-> 256000, supportsImages |-> TRUE, supportsPromptCache |-> TRUE, inputPrice |-> 500, outputPrice |-> 2000] >>,
      \* "gpt-5-mini"
      << <<"g","p","t","-","5","-","m","i","n","i">>,
         [maxTokens |-> 32768, contextWindow |-> 256000, supportsImages |-> TRUE, supportsPromptCache |-> TRUE, inputPrice |-> 100, outputPrice |-> 400] >>,
      \* "gpt-5.2"
      << <<"g","p","t","-","5",".","2">>,
         [maxTokens |-> 32768, contextWindow |-> 256000, supportsImages |-> TRUE, supportsPromptCache |-> TRUE, inputPrice |-> 500, outputPrice |-> 2000] >>,
      \* "gpt-5.2-chat"
      << <<"g","p","t","-","5",".","2","-","c","h","a","t">>,
         [maxTokens |-> 32768, contextWindow |-> 256000, supportsImages |-> TRUE, supportsPromptCache |-> TRUE, inputPrice |-> 500, outputPrice |-> 2000] >>,
      \* "gpt-4o"
      << <<"g","p","t","-","4","o">>,
         [maxTokens |-> 16384, contextWindow |-> 128000, supportsImages |-> TRUE, supportsPromptCache |-> FALSE, inputPrice |-> 250, outputPrice |-> 1000] >>,
      \* "gpt-4o-mini"
      << <<"g","p","t","-","4","o","-","m","i","n","i">>,
         [maxTokens |-> 16384, contextWindow |-> 128000, supportsImages |-> TRUE, supportsPromptCache |-> FALSE, inputPrice |-> 15, outputPrice |-> 60] >>,
      \* "gpt-4"
      << <<"g","p","t","-","4">>,
         [maxTokens |-> 8192, contextWindow |-> 128000, supportsImages |-> FALSE, supportsPromptCache |-> FALSE, inputPrice |-> 3000, outputPrice |-> 6000] >>,
      \* "gpt-4-turbo"
      << <<"g","p","t","-","4","-","t","u","r","b","o">>,
         [maxTokens |-> 4096, contextWindow |-> 128000, supportsImages |-> TRUE, supportsPromptCache |-> FALSE, inputPrice |-> 1000, outputPrice |-> 3000] >>,
      \* "o1"
      << <<"o","1">>,
         [maxTokens |-> 100000, contextWindow |-> 200000, supportsImages |-> TRUE, supportsPromptCache |-> FALSE, supportsReasoning |-> TRUE, inputPrice |-> 1500, outputPrice |-> 6000] >>,
      \* "o1-mini"
      << <<"o","1","-","m","i","n","i">>,
         [maxTokens |-> 65536, contextWindow |-> 128000, supportsImages |-> FALSE, supportsPromptCache |-> FALSE, supportsReasoning |-> TRUE, inputPrice |-> 300, outputPrice |-> 1200] >>,
      \* "o1-preview"
      << <<"o","1","-","p","r","e","v","i","e","w">>,
         [maxTokens |-> 32768, contextWindow |-> 128000, supportsImages |-> FALSE, supportsPromptCache |-> FALSE, supportsReasoning |-> TRUE, inputPrice |-> 1500, outputPrice |-> 6000] >>,
      \* "o3"
      << <<"o","3">>,
         [maxTokens |-> 100000, contextWindow |-> 200000, supportsImages |-> TRUE, supportsPromptCache |-> FALSE, supportsReasoning |-> TRUE, inputPrice |-> 1000, outputPrice |-> 4000] >>,
      \* "o3-mini"
      << <<"o","3","-","m","i","n","i">>,
         [maxTokens |-> 65536, contextWindow |-> 200000, supportsImages |-> FALSE, supportsPromptCache |-> FALSE, supportsReasoning |-> TRUE, inputPrice |-> 110, outputPrice |-> 440] >>,
      \* "gpt-4.1"
      << <<"g","p","t","-","4",".","1">>,
         [maxTokens |-> 32768, contextWindow |-> 1047576, supportsImages |-> TRUE, supportsPromptCache |-> FALSE, inputPrice |-> 200, outputPrice |-> 800] >>,
      \* "gpt-4.1-mini"
      << <<"g","p","t","-","4",".","1","-","m","i","n","i">>,
         [maxTokens |-> 32768, contextWindow |-> 1047576, supportsImages |-> TRUE, supportsPromptCache |-> FALSE, inputPrice |-> 40, outputPrice |-> 160] >>,
      \* "gpt-4.1-nano"
      << <<"g","p","t","-","4",".","1","-","n","a","n","o">>,
         [maxTokens |-> 32768, contextWindow |-> 1047576, supportsImages |-> TRUE, supportsPromptCache |-> FALSE, inputPrice |-> 10, outputPrice |-> 40] >>,
      \* "o1-pro"
      << <<"o","1","-","p","r","o">>,
         [maxTokens |-> 100000, contextWindow |-> 200000, supportsImages |-> TRUE, supportsPromptCache |-> FALSE, supportsReasoning |-> TRUE, inputPrice |-> 15000, outputPrice |-> 60000] >>,
      \* "o4-mini"
      << <<"o","4","-","m","i","n","i">>,
         [maxTokens |-> 65536, contextWindow |-> 200000, supportsImages |-> TRUE, supportsPromptCache |-> FALSE, supportsReasoning |-> TRUE, inputPrice |-> 110, outputPrice |-> 440] >>,
      \* "gpt-35-turbo"
      << <<"g","p","t","-","3","5","-","t","u","r","b","o">>,
         [maxTokens |-> 4096, contextWindow |-> 16385, supportsImages |-> FALSE, supportsPromptCache |-> FALSE, inputPrice |-> 50, outputPrice |-> 150] >>,
      \* "claude-sonnet-4-5"
      << <<"c","l","a","u","d","e","-","s","o","n","n","e","t","-","4","-","5">>,
         [maxTokens |-> 8192, contextWindow |-> 200000, supportsImages |-> TRUE, supportsPromptCache |-> TRUE, supportsReasoning |-> TRUE, inputPrice |-> 300, outputPrice |-> 1500] >>,
      \* "claude-opus-4"
      << <<"c","l","a","u","d","e","-","o","p","u","s","-","4">>,
         [maxTokens |-> 8192, contextWindow |-> 200000, supportsImages |-> TRUE, supportsPromptCache |-> TRUE, supportsReasoning |-> TRUE, inputPrice |-> 1500, outputPrice |-> 7500] >>,
      \* "claude-haiku-4"
      << <<"c","l","a","u","d","e","-","h","a","i","k","u","-","4">>,
         [maxTokens |-> 8192, contextWindow |-> 200000, supportsImages |-> TRUE, supportsPromptCache |-> TRUE, inputPrice |-> 80, outputPrice |-> 400] >>,
      \* "Phi-4"
      << <<"P","h","i","-","4">>,
         [maxTokens |-> 16384, contextWindow |-> 128000, supportsImages |-> FALSE, supportsPromptCache |-> FALSE, inputPrice |-> 0, outputPrice |-> 0] >>,
      \* "Phi-4-mini"
      << <<"P","h","i","-","4","-","m","i","n","i">>,
         [maxTokens |-> 16384, contextWindow |-> 128000, supportsImages |-> FALSE, supportsPromptCache |-> FALSE, inputPrice |-> 0, outputPrice |-> 0] >>,
      \* "Phi-4-multimodal"
      << <<"P","h","i","-","4","-","m","u","l","t","i","m","o","d","a","l">>,
         [maxTokens |-> 16384, contextWindow |-> 128000, supportsImages |-> TRUE, supportsPromptCache |-> FALSE, inputPrice |-> 0, outputPrice |-> 0] >>,
      \* "Llama-3.3-70B"
      << <<"L","l","a","m","a","-","3",".","3","-","7","0","B">>,
         [maxTokens |-> 8192, contextWindow |-> 128000, supportsImages |-> FALSE, supportsPromptCache |-> FALSE, inputPrice |-> 0, outputPrice |-> 0] >>,
      \* "Llama-4"
      << <<"L","l","a","m","a","-","4">>,
         [maxTokens |-> 8192, contextWindow |-> 128000, supportsImages |-> FALSE, supportsPromptCache |-> FALSE, inputPrice |-> 0, outputPrice |-> 0] >>,
      \* "DeepSeek-V3"
      << <<"D","e","e","p","S","e","e","k","-","V","3">>,
         [maxTokens |-> 8192, contextWindow |-> 128000, supportsImages |-> FALSE, supportsPromptCache |-> FALSE, inputPrice |-> 0, outputPrice |-> 0] >>,
      \* "mistral-medium"
      << <<"m","i","s","t","r","a","l","-","m","e","d","i","u","m">>,
         [maxTokens |-> 8192, contextWindow |-> 128000, supportsImages |-> FALSE, supportsPromptCache |-> FALSE, inputPrice |-> 0, outputPrice |-> 0] >>,
      \* "grok"
      << <<"g","r","o","k">>,
         [maxTokens |-> 8192, contextWindow |-> 128000, supportsImages |-> FALSE, supportsPromptCache |-> FALSE, inputPrice |-> 0, outputPrice |-> 0] >>,
      \* "grok-3"
      << <<"g","r","o","k","-","3">>,
         [maxTokens |-> 8192, contextWindow |-> 128000, supportsImages |-> FALSE, supportsPromptCache |-> FALSE, inputPrice |-> 0, outputPrice |-> 0] >>,
      \* "grok-4"
      << <<"g","r","o","k","-","4">>,
         [maxTokens |-> 8192, contextWindow |-> 128000, supportsImages |-> FALSE, supportsPromptCache |-> FALSE, inputPrice |-> 0, outputPrice |-> 0] >>
   >>

DEFAULT_MODEL_INFO ==
    [maxTokens |-> 4096, contextWindow |-> 128000, supportsImages |-> FALSE,
     supportsPromptCache |-> FALSE, inputPrice |-> 0, outputPrice |-> 0]

\* FOUNDRY_MODEL_CAPABILITIES[modelName]
TableLookup(modelName) ==
    LET hits == {i \in DOMAIN FOUNDRY_MODEL_CAPABILITIES :
                    FOUNDRY_MODEL_CAPABILITIES[i][1] = modelName}
    IN  IF hits = {} THEN None
        ELSE Some(FOUNDRY_MODEL_CAPABILITIES[CHOOSE i \in hits : TRUE][2])

\* The first entry, in Object.entries order, whose key is a prefix of modelName
FirstPrefixMatch(modelName) ==
    LET hits == {i \in DOMAIN FOUNDRY_MODEL_CAPABILITIES :
                    StartsWith(modelName, FOUNDRY_MODEL_CAPABILITIES[i][1])}
    IN  IF hits = {} THEN None
        ELSE Some(FOUNDRY_MODEL_CAPABILITIES[
                    CHOOSE i \in hits : \A j \in hits : i <= j][2])

\* Mutant of getModelCapabilities: no prefix match, a name that is not a key
\* resolves to the default record
getModelCapabilities_NoPrefix(modelName) ==
    IF IsSome(TableLookup(modelName))
    THEN Spread(DEFAULT_MODEL_INFO, Val(TableLookup(modelName)))
    ELSE DEFAULT_MODEL_INFO

getModelCapabilities(modelName) ==
    IF IsSome(TableLookup(modelName))
    THEN Spread(DEFAULT_MODEL_INFO, Val(TableLookup(modelName)))
    ELSE IF IsSome(FirstPrefixMatch(modelName))
         THEN Spread(DEFAULT_MODEL_INFO, Val(FirstPrefixMatch(modelName)))
         ELSE DEFAULT_MODEL_INFO

-----------------------------------------------------------------------------
(* Static model capabilities of the provider settings view.  The table has   *)
(* the keys of FOUNDRY_MODEL_CAPABILITIES in another order and no prices.    *)

MODEL_CAPABILITIES ==
   <<
      \* "gpt-5"
      << <<"g","p","t","-","5">>,
         [maxTokens |-> 32768, contextWindow |-> 256000, supportsImages |-> TRUE, supportsPromptCache |-> TRUE] >>,
      \* "gpt-5-mini"
      << <<"g","p","t","-","5","-","m","i","n","i">>,
         [maxTokens |-> 32768, contextWindow |-> 256000, supportsImages |-> TRUE, supportsPromptCache |-> TRUE] >>,
      \* "gpt-5.2"
      << <<"g","p","t","-","5",".","2">>,
         [maxTokens |-> 32768, contextWindow |-> 256000, supportsImages |-> TRUE, supportsPromptCache |-> TRUE] >>,
      \* "gpt-5.2-chat"
      << <<"g","p","t","-","5",".","2","-","c","h","a","t">>,
         [maxTokens |-> 32768, contextWindow |-> 256000, supportsImages |-> TRUE, supportsPromptCache |-> TRUE] >>,
      \* "gpt-4o"
      << <<"g","p","t","-","4","o">>,
         [maxTokens |-> 16384, contextWindow |-> 128000, supportsImages |-> TRUE, supportsPromptCache |-> FALSE] >>,
      \* "gpt-4o-mini"
      << <<"g","p","t","-","4","o","-","m","i","n","i">>,
         [maxTokens |-> 16384, contextWindow |-> 128000, supportsImages |-> TRUE, supportsPromptCache |-> FALSE] >>,
      \* "gpt-4.1"
      << <<"g","p","t","-","4",".","1">>,
         [maxTokens |-> 32768, contextWindow |-> 1047576, supportsImages |-> TRUE, supportsPromptCache |-> FALSE] >>,
      \* "gpt-4.1-mini"
      << <<"g","p","t","-","4",".","1","-","m","i","n","i">>,
         [maxTokens |-> 32768, contextWindow |-> 1047576, supportsImages |-> TRUE, supportsPromptCache |-> FALSE] >>,
      \* "gpt-4.1-nano"
      << <<"g","p","t","-","4",".","1","-","n","a","n","o">>,
         [maxTokens |-> 32768, contextWindow |-> 1047576, supportsImages |-> TRUE, supportsPromptCache |-> FALSE] >>,
      \* "gpt-4"
      << <<"g","p","t","-","4">>,
         [maxTokens |-> 8192, contextWindow |-> 128000, supportsImages |-> FALSE, supportsPromptCache |-> FALSE] >>,
      \* "gpt-4-turbo"
      << <<"g","p","t","-","4","-","t","u","r","b","o">>,
         [maxTokens |-> 4096, contextWindow |-> 128000, supportsImages |-> TRUE, supportsPromptCache |-> FALSE] >>,
      \* "o1-pro"
      << <<"o","1","-","p","r","o">>,
         [maxTokens |-> 100000, contextWindow |-> 200000, supportsImages |-> TRUE, supportsPromptCache |-> FALSE, supportsReasoning |-> TRUE] >>,
      \* "o1"
      << <<"o","1">>,
         [maxTokens |-> 100000, contextWindow |-> 200000, supportsImages |-> TRUE, supportsPromptCache |-> FALSE, supportsReasoning |-> TRUE] >>,
      \* "o1-mini"
      << <<"o","1","-","m","i","n","i">>,
         [maxTokens |-> 65536, contextWindow |-> 128000, supportsImages |-> FALSE, supportsPromptCache |-> FALSE, supportsReasoning |-> TRUE] >>,
      \* "o1-preview"
      << <<"o","1","-","p","r","e","v","i","e","w">>,
         [maxTokens |-> 32768, contextWindow |-> 128000, supportsImages |-> FALSE, supportsPromptCache |-> FALSE, supportsReasoning |-> TRUE] >>,
      \* "o3"
      << <<"o","3">>,
         [maxTokens |-> 100000, contextWindow |-> 200000, supportsImages |-> TRUE, supportsPromptCache |-> FALSE, supportsReasoning |-> TRUE] >>,
      \* "o3-mini"
      << <<"o","3","-","m","i","n","i">>,
         [maxTokens |-> 65536, contextWindow |-> 200000, supportsImages |-> FALSE, supportsPromptCache |-> FALSE, supportsReasoning |-> TRUE] >>,
      \* "o4-mini"
      << <<"o","4","-","m","i","n","i">>,
         [maxTokens |-> 65536, contextWindow |-> 200000, supportsImages |-> TRUE, supportsPromptCache |-> FALSE, supportsReasoning |-> TRUE] >>,
      \* "gpt-35-turbo"
      << <<"g","p","t","-","3","5","-","t","u","r","b","o">>,
         [maxTokens |-> 4096, contextWindow |-> 16385, supportsImages |-> FALSE, supportsPromptCache |-> FALSE] >>,
      \* "claude-sonnet-4-5"
      << <<"c","l","a","u","d","e","-","s","o","n","n","e","t","-","4","-","5">>,
         [maxTokens |-> 8192, contextWindow |-> 200000, supportsImages |-> TRUE, supportsPromptCache |-> TRUE, supportsReasoning |-> TRUE] >>,
      \* "claude-opus-4"
      << <<"c","l","a","u","d","e","-","o","p","u","s","-","4">>,
         [maxTokens |-> 8192, contextWindow |-> 200000, supportsImages |-> TRUE, supportsPromptCache |-> TRUE, supportsReasoning |-> TRUE] >>,
      \* "claude-haiku-4"
      << <<"c","l","a","u","d","e","-","h","a","i","k","u","-","4">>,
         [maxTokens |-> 8192, contextWindow |-> 200000, supportsImages |-> TRUE, supportsPromptCache |-> TRUE] >>,
      \* "Phi-4"
      << <<"P","h","i","-","4">>,
         [maxTokens |-> 16384, contextWindow |-> 128000, supportsImages |-> FALSE, supportsPromptCache |-> FALSE] >>,
      \* "Phi-4-mini"
      << <<"P","h","i","-","4","-","m","i","n","i">>,
         [maxTokens |-> 16384, contextWindow |-> 128000, supportsImages |-> FALSE, supportsPromptCache |-> FALSE] >>,
      \* "Phi-4-multimodal"
      << <<"P","h","i","-","4","-","m","u","l","t","i","m","o","d","a","l">>,
         [maxTokens |-> 16384, contextWindow |-> 128000, supportsImages |-> TRUE, supportsPromptCache |-> FALSE] >>,
      \* "Llama-3.3-70B"
      << <<"L","l","a","m","a","-","3",".","3","-","7","0","B">>,
         [maxTokens |-> 8192, contextWindow |-> 128000, supportsImages |-> FALSE, supportsPromptCache |-> FALSE] >>,
      \* "Llama-4"
      << <<"L","l","a","m","a","-","4">>,
         [maxTokens |-> 8192, contextWindow |-> 128000, supportsImages |-> FALSE, supportsPromptCache |-> FALSE] >>,
      \* "DeepSeek-V3"
      << <<"D","e","e","p","S","e","e","k","-","V","3">>,
         [maxTokens |-> 8192, contextWindow |-> 128000, supportsImages |-> FALSE, supportsPromptCache |-> FALSE] >>,
      \* "mistral-medium"
      << <<"m","i","s","t","r","a","l","-","m","e","d","i","u","m">>,
         [maxTokens |-> 8192, contextWindow |-> 128000, supportsImages |-> FALSE, supportsPromptCache |-> FALSE] >>,
      \* "grok"
      << <<"g","r","o","k">>,
         [maxTokens |-> 8192, contextWindow |-> 128000, supportsImages |-> FALSE, supportsPromptCache |-> FALSE] >>,
      \* "grok-3"
      << <<"g","r","o","k","-","3">>,
         [maxTokens |-> 8192, contextWindow |-> 128000, supportsImages |-> FALSE, supportsPromptCache |-> FALSE] >>,
      \* "grok-4"
      << <<"g","r","o","k","-","4">>,
         [maxTokens |-> 8192, contextWindow |-> 128000, supportsImages |-> FALSE, supportsPromptCache |-> FALSE] >>
   >>

SETTINGS_DEFAULT_MODEL_INFO ==
    [maxTokens |-> 4096, contextWindow |-> 128000, supportsImages |-> FALSE,
     supportsPromptCache |-> FALSE]

\* MODEL_CAPABILITIES[modelName]
SettingsTableLookup(modelName) ==
    LET hits == {i \in DOMAIN MODEL_CAPABILITIES :
                    MODEL_CAPABILITIES[i][1] = modelName}
    IN  IF hits = {} THEN None
        ELSE Some(MODEL_CAPABILITIES[CHOOSE i \in hits : TRUE][2])

\* The first entry, in Object.entries order, whose key is a prefix of modelName
SettingsFirstPrefixMatch(modelName) ==
    LET hits == {i \in DOMAIN MODEL_CAPABILITIES :
                    StartsWith(modelName, MODEL_CAPABILITIES[i][1])}
    IN  IF hits = {} THEN None
        ELSE Some(MODEL_CAPABILITIES[
                    CHOOSE i \in hits : \A j \in hits : i <= j][2])

\* getModelCapabilities of the settings view
SettingsGetModelCapabilities(modelName) ==
    IF IsSome(SettingsTableLookup(modelName))
    THEN Spread(SETTINGS_DEFAULT_MODEL_INFO, Val(SettingsTableLookup(modelName)))
    ELSE IF IsSome(SettingsFirstPrefixMatch(modelName))
         THEN Spread(SETTINGS_DEFAULT_MODEL_INFO,
                     Val(SettingsFirstPrefixMatch(modelName)))
         ELSE SETTINGS_DEFAULT_MODEL_INFO

-----------------------------------------------------------------------------
(* Message texts.  The lexer accepts no grave accent in a string, so that one   *)
(* character is written "backtick".                                          *)

\* Azure CLI session expired or not authenticated. Run 'az login' to
\* re-authenticate, then try again.
MSG_AUTH_IDENTITY ==
    << "A","z","u","r","e"," ","C","L","I"," ","s","e","s","s","i","o","n",
       " ","e","x","p","i","r","e","d"," ","o","r"," ","n","o","t"," ","a",
       "u","t","h","e","n","t","i","c","a","t","e","d","."," ","R","u","n",
       " ","backtick","a","z"," ","l","o","g","i","n","backtick"," ","t","o"," ","r","e",
       "-","a","u","t","h","e","n","t","i","c","a","t","e",","," ","t","h",
       "e","n"," ","t","r","y"," ","a","g","a","i","n","." >>

\* Invalid API key. Please verify your Microsoft Foundry API key is
\* correct.
MSG_AUTH_KEY ==
    << "I","n","v","a","l","i","d"," ","A","P","I"," ","k","e","y","."," ",
       "P","l","e","a","s","e"," ","v","e","r","i","f","y"," ","y","o","u",
       "r"," ","M","i","c","r","o","s","o","f","t"," ","F","o","u","n","d",
       "r","y"," ","A","P","I"," ","k","e","y"," ","i","s"," ","c","o","r",
       "r","e","c","t","." >>

\* Insufficient permissions. Ensure your account has the 'Cognitive
\* Services User' role assigned for this resource.
MSG_FORBIDDEN ==
    << "I","n","s","u","f","f","i","c","i","e","n","t"," ","p","e","r","m",
       "i","s","s","i","o","n","s","."," ","E","n","s","u","r","e"," ","y",
       "o","u","r"," ","a","c","c","o","u","n","t"," ","h","a","s"," ","t",
       "h","e"," ","'","C","o","g","n","i","t","i","v","e"," ","S","e","r",
       "v","i","c","e","s"," ","U","s","e","r","'"," ","r","o","l","e"," ",
       "a","s","s","i","g","n","e","d"," ","f","o","r"," ","t","h","i","s",
       " ","r","e","s","o","u","r","c","e","." >>

\* Deployment '
MSG_DEPLOYMENT_HEAD ==
    << "D","e","p","l","o","y","m","e","n","t"," ","'" >>

\* ' not found. Verify that:
\* 1. The deployment exists in your Azure AI Foundry project
\* 2. The deployment name is spelled correctly
\* 3. The model has been deployed (not just available in the catalog)
MSG_DEPLOYMENT_TAIL ==
    << "'"," ","n","o","t"," ","f","o","u","n","d","."," ","V","e","r","i",
       "f","y"," ","t","h","a","t",":","\n","1","."," ","T","h","e"," ","d",
       "e","p","l","o","y","m","e","n","t"," ","e","x","i","s","t","s"," ",
       "i","n"," ","y","o","u","r"," ","A","z","u","r","e"," ","A","I"," ",
       "F","o","u","n","d","r","y"," ","p","r","o","j","e","c","t","\n","2",
       "."," ","T","h","e"," ","d","e","p","l","o","y","m","e","n","t"," ",
       "n","a","m","e"," ","i","s"," ","s","p","e","l","l","e","d"," ","c",
       "o","r","r","e","c","t","l","y","\n","3","."," ","T","h","e"," ","m",
       "o","d","e","l"," ","h","a","s"," ","b","e","e","n"," ","d","e","p",
       "l","o","y","e","d"," ","(","n","o","t"," ","j","u","s","t"," ","a",
       "v","a","i","l","a","b","l","e"," ","i","n"," ","t","h","e"," ","c",
       "a","t","a","l","o","g",")" >>

\* Resource not found. Verify the endpoint URL is correct.
MSG_NOT_FOUND ==
    << "R","e","s","o","u","r","c","e"," ","n","o","t"," ","f","o","u","n",
       "d","."," ","V","e","r","i","f","y"," ","t","h","e"," ","e","n","d",
       "p","o","i","n","t"," ","U","R","L"," ","i","s"," ","c","o","r","r",
       "e","c","t","." >>

\* Rate limit exceeded. Please wait a moment and try again, or request a
\* quota increase for your Azure OpenAI resource.
MSG_RATE_LIMIT ==
    << "R","a","t","e"," ","l","i","m","i","t"," ","e","x","c","e","e","d",
       "e","d","."," ","P","l","e","a","s","e"," ","w","a","i","t"," ","a",
       " ","m","o","m","e","n","t"," ","a","n","d"," ","t","r","y"," ","a",
       "g","a","i","n",","," ","o","r"," ","r","e","q","u","e","s","t"," ",
       "a"," ","q","u","o","t","a"," ","i","n","c","r","e","a","s","e"," ",
       "f","o","r"," ","y","o","u","r"," ","A","z","u","r","e"," ","O","p",
       "e","n","A","I"," ","r","e","s","o","u","r","c","e","." >>

\* Unable to reach Microsoft Foundry endpoint. Check your network
\* connectivity and verify the endpoint URL is correct.
MSG_NETWORK ==
    << "U","n","a","b","l","e"," ","t","o"," ","r","e","a","c","h"," ","M",
       "i","c","r","o","s","o","f","t"," ","F","o","u","n","d","r","y"," ",
       "e","n","d","p","o","i","n","t","."," ","C","h","e","c","k"," ","y",
       "o","u","r"," ","n","e","t","w","o","r","k"," ","c","o","n","n","e",
       "c","t","i","v","i","t","y"," ","a","n","d"," ","v","e","r","i","f",
       "y"," ","t","h","e"," ","e","n","d","p","o","i","n","t"," ","U","R",
       "L"," ","i","s"," ","c","o","r","r","e","c","t","." >>

\* Microsoft Foundry error:
MSG_DEFAULT_HEAD ==
    << "M","i","c","r","o","s","o","f","t"," ","F","o","u","n","d","r","y",
       " ","e","r","r","o","r",":"," " >>

\* Microsoft Foundry endpoint is required. Please configure the endpoint
\* URL.
MSG_ENDPOINT_REQUIRED ==
    << "M","i","c","r","o","s","o","f","t"," ","F","o","u","n","d","r","y",
       " ","e","n","d","p","o","i","n","t"," ","i","s"," ","r","e","q","u",
       "i","r","e","d","."," ","P","l","e","a","s","e"," ","c","o","n","f",
       "i","g","u","r","e"," ","t","h","e"," ","e","n","d","p","o","i","n",
       "t"," ","U","R","L","." >>

\* Microsoft Foundry requires either an API key or Azure Identity
\* authentication. Please configure one of these options.
MSG_AUTH_REQUIRED ==
    << "M","i","c","r","o","s","o","f","t"," ","F","o","u","n","d","r","y",
       " ","r","e","q","u","i","r","e","s"," ","e","i","t","h","e","r"," ",
       "a","n"," ","A","P","I"," ","k","e","y"," ","o","r"," ","A","z","u",
       "r","e"," ","I","d","e","n","t","i","t","y"," ","a","u","t","h","e",
       "n","t","i","c","a","t","i","o","n","."," ","P","l","e","a","s","e",
       " ","c","o","n","f","i","g","u","r","e"," ","o","n","e"," ","o","f",
       " ","t","h","e","s","e"," ","o","p","t","i","o","n","s","." >>

\* Azure Stack environment requires a custom audience scope. Please
\* configure 'Custom Scope' in the provider settings.
MSG_STACK_SCOPE ==
    << "A","z","u","r","e"," ","S","t","a","c","k"," ","e","n","v","i","r",
       "o","n","m","e","n","t"," ","r","e","q","u","i","r","e","s"," ","a",
       " ","c","u","s","t","o","m"," ","a","u","d","i","e","n","c","e"," ",
       "s","c","o","p","e","."," ","P","l","e","a","s","e"," ","c","o","n",
       "f","i","g","u","r","e"," ","'","C","u","s","t","o","m"," ","S","c",
       "o","p","e","'"," ","i","n"," ","t","h","e"," ","p","r","o","v","i",
       "d","e","r"," ","s","e","t","t","i","n","g","s","." >>

\* No deployment selected. Please select a deployment from the Microsoft
\* Foundry provider settings.
MSG_NO_DEPLOYMENT ==
    << "N","o"," ","d","e","p","l","o","y","m","e","n","t"," ","s","e","l",
       "e","c","t","e","d","."," ","P","l","e","a","s","e"," ","s","e","l",
       "e","c","t"," ","a"," ","d","e","p","l","o","y","m","e","n","t"," ",
       "f","r","o","m"," ","t","h","e"," ","M","i","c","r","o","s","o","f",
       "t"," ","F","o","u","n","d","r","y"," ","p","r","o","v","i","d","e",
       "r"," ","s","e","t","t","i","n","g","s","." >>

\* Cannot read properties of null (reading 'choices')
MSG_NULL_CHUNK ==
    << "C","a","n","n","o","t"," ","r","e","a","d"," ","p","r","o","p","e",
       "r","t","i","e","s"," ","o","f"," ","n","u","l","l"," ","(","r","e",
       "a","d","i","n","g"," ","'","c","h","o","i","c","e","s","'",")" >>

\* https://cognitiveservices.azure.us/.default
SCOPE_GOVERNMENT ==
    << "h","t","t","p","s",":","/","/","c","o","g","n","i","t","i","v","e",
       "s","e","r","v","i","c","e","s",".","a","z","u","r","e",".","u","s",
       "/",".","d","e","f","a","u","l","t" >>

\* https://cognitiveservices.azure.com/.default
SCOPE_COMMERCIAL ==
    << "h","t","t","p","s",":","/","/","c","o","g","n","i","t","i","v","e",
       "s","e","r","v","i","c","e","s",".","a","z","u","r","e",".","c","o",
       "m","/",".","d","e","f","a","u","l","t" >>

\* undefined
STR_UNDEFINED ==
    << "u","n","d","e","f","i","n","e","d" >>


-----------------------------------------------------------------------------
(* Error classification *)

\* A thrown Error is a record with a message and, for errors of the OpenAI
\* client, optionally a status or statusCode.  The numeric status of an error
\* that carries none is NO_STATUS.
NO_STATUS == 0

\* new Error(message)
NewError(message) == [message |-> message]

\* err?.status || err?.statusCode
StatusCodeOf(err) ==
    IF Has(err, "status") /\ err.status # 0 THEN err.status
    ELSE IF Has(err, "statusCode") THEN err.statusCode
    ELSE NO_STATUS

IsAuthError(statusCode, message) ==
    \/ statusCode = 401
    \/ Includes(message, <<"4","0","1">>)
    \/ Includes(message, <<"U","n","a","u","t","h","o","r","i","z","e","d">>)

IsForbiddenError(statusCode, message) ==
    \/ statusCode = 403
    \/ Includes(message, <<"4","0","3">>)
    \/ Includes(message, <<"F","o","r","b","i","d","d","e","n">>)

IsNotFoundError(statusCode, message) ==
    \/ statusCode = 404
    \/ Includes(message, <<"4","0","4">>)
    \/ Includes(message, <<"N","o","t"," ","F","o","u","n","d">>)

HasDeploymentHint(message) ==
    \/ Includes(message, <<"d","e","p","l","o","y","m","e","n","t">>)
    \/ Includes(message, <<"D","e","p","l","o","y","m","e","n","t">>)
    \/ Includes(message, <<"D","e","p","l","o","y","m","e","n","t",
                           "N","o","t","F","o","u","n","d">>)

IsRateLimitError(statusCode, message) ==
    \/ statusCode = 429
    \/ Includes(message, <<"4","2","9">>)
    \/ Includes(message, <<"T","o","o"," ","M","a","n","y"," ",
                           "R","e","q","u","e","s","t","s">>)

IsNetworkError(message) ==
    \/ Includes(message, <<"E","N","O","T","F","O","U","N","D">>)
    \/ Includes(message, <<"E","C","O","N","N","R","E","F","U","S","E","D">>)
    \/ Includes(message, <<"n","e","t","w","o","r","k">>)

\* `Deployment '${this.options.microsoftFoundryDeploymentId}' not found. ...`
DeploymentNotFoundMessage(opts) ==
    MSG_DEPLOYMENT_HEAD
      \o (IF Has(opts, "microsoftFoundryDeploymentId")
          THEN opts.microsoftFoundryDeploymentId ELSE STR_UNDEFINED)
      \o MSG_DEPLOYMENT_TAIL

getDetailedErrorMessage(opts, error) ==
    LET message == error.message
        statusCode == StatusCodeOf(error)
    IN  IF IsAuthError(statusCode, message)
        THEN IF TruthyBool(opts, "microsoftFoundryUseIdentity")
             THEN MSG_AUTH_IDENTITY ELSE MSG_AUTH_KEY
        ELSE IF IsForbiddenError(statusCode, message) THEN MSG_FORBIDDEN
        ELSE IF IsNotFoundError(statusCode, message)
        THEN IF HasDeploymentHint(message)
             THEN DeploymentNotFoundMessage(opts) ELSE MSG_NOT_FOUND
        ELSE IF IsRateLimitError(statusCode, message) THEN MSG_RATE_LIMIT
        ELSE IF IsNetworkError(message) THEN MSG_NETWORK
        ELSE MSG_DEFAULT_HEAD \o message

\* Mutant of WrapError: the caught exception is rethrown as it is
WrapError_Rethrow(opts, error) == error

\* throw new Error(this.getDetailedErrorMessage(error))
WrapError(opts, error) == NewError(getDetailedErrorMessage(opts, error))

-----------------------------------------------------------------------------
(* Client provisioning *)

\* A function returns [thrown |-> <<>>, value |-> v] or throws:
\* [thrown |-> <<error>>].
Return(v) == [thrown |-> None, value |-> v]
Throw(e) == [thrown |-> Some(e)]
Threw(r) == IsSome(r.thrown)

STR_EMPTY == << >>

AZURE_US == <<"a","z","u","r","e",".","u","s">>
AZURE_COM == <<"a","z","u","r","e",".","c","o","m">>

\* Mutant of getAudienceScope: a "stack" environment with no custom scope
\* falls through to the commercial scope
getAudienceScope_StackDefaults(opts) ==
    LET endpoint == IF Has(opts, "microsoftFoundryEndpoint")
                    THEN ToLowerCase(opts.microsoftFoundryEndpoint)
                    ELSE STR_EMPTY
        cloudEnv == IF Has(opts, "microsoftFoundryCloudEnvironment")
                    THEN opts.microsoftFoundryCloudEnvironment
                    ELSE "commercial"
    IN  IF cloudEnv = "stack" /\ TruthyStr(opts, "microsoftFoundryCustomScope")
        THEN Return(opts.microsoftFoundryCustomScope)
        ELSE IF Includes(endpoint, AZURE_US) THEN Return(SCOPE_GOVERNMENT)
        ELSE IF Includes(endpoint, AZURE_COM) THEN Return(SCOPE_COMMERCIAL)
        ELSE IF cloudEnv = "government" THEN Return(SCOPE_GOVERNMENT)
        ELSE Return(SCOPE_COMMERCIAL)

\* Mutant of getAudienceScope: the declared environment is consulted before
\* the endpoint
getAudienceScope_EnvironmentFirst(opts) ==
    LET endpoint == IF Has(opts, "microsoftFoundryEndpoint")
                    THEN ToLowerCase(opts.microsoftFoundryEndpoint)
                    ELSE STR_EMPTY
        cloudEnv == IF Has(opts, "microsoftFoundryCloudEnvironment")
                    THEN opts.microsoftFoundryCloudEnvironment
                    ELSE "commercial"
    IN  IF cloudEnv = "stack" /\ TruthyStr(opts, "microsoftFoundryCustomScope")
        THEN Return(opts.microsoftFoundryCustomScope)
        ELSE IF cloudEnv = "government" THEN Return(SCOPE_GOVERNMENT)
        ELSE IF Includes(endpoint, AZURE_US) THEN Return(SCOPE_GOVERNMENT)
        ELSE IF Includes(endpoint, AZURE_COM) THEN Return(SCOPE_COMMERCIAL)
        ELSE IF cloudEnv = "stack"
        THEN Throw(NewError(MSG_STACK_SCOPE))
        ELSE Return(SCOPE_COMMERCIAL)

getAudienceScope(opts) ==
    LET endpoint == IF Has(opts, "microsoftFoundryEndpoint")
                    THEN ToLowerCase(opts.microsoftFoundryEndpoint)
                    ELSE STR_EMPTY
        cloudEnv == IF Has(opts, "microsoftFoundryCloudEnvironment")
                    THEN opts.microsoftFoundryCloudEnvironment
                    ELSE "commercial"
    IN  IF cloudEnv = "stack" /\ TruthyStr(opts, "microsoftFoundryCustomScope")
        THEN Return(opts.microsoftFoundryCustomScope)
        ELSE IF Includes(endpoint, AZURE_US) THEN Return(SCOPE_GOVERNMENT)
        ELSE IF Includes(endpoint, AZURE_COM) THEN Return(SCOPE_COMMERCIAL)
        ELSE IF cloudEnv = "government" THEN Return(SCOPE_GOVERNMENT)
        ELSE IF cloudEnv = "stack"
        THEN IF ~TruthyStr(opts, "microsoftFoundryCustomScope")
             THEN Throw(NewError(MSG_STACK_SCOPE))
             ELSE Return(opts.microsoftFoundryCustomScope)
        ELSE Return(SCOPE_COMMERCIAL)

\* The default API version is imported from the shared API module; its text
\* is not used by the handler.
azureOpenAiDefaultApiVersion == << "azureOpenAiDefaultApiVersion" >>

getApiVersion(opts) ==
    IF TruthyStr(opts, "microsoftFoundryApiVersion")
    THEN opts.microsoftFoundryApiVersion
    ELSE azureOpenAiDefaultApiVersion

\* new AzureOpenAI({...}) inside the try block of ensureClient.  ctorError is
\* <<>> or <<the exception the AzureOpenAI constructor raises>>; instance
\* identifies the object the constructor creates.
ConstructClient(opts, ctorError, instance) ==
    IF TruthyBool(opts, "microsoftFoundryUseIdentity")
    THEN IF Threw(getAudienceScope(opts))
         THEN Throw(Val(getAudienceScope(opts).thrown))
         ELSE IF IsSome(ctorError) THEN Throw(Val(ctorError))
         ELSE Return([instance |-> instance,
                      endpoint |-> opts.microsoftFoundryEndpoint,
                      auth |-> "identity",
                      scope |-> getAudienceScope(opts).value,
                      apiVersion |-> getApiVersion(opts)])
    ELSE IF IsSome(ctorError) THEN Throw(Val(ctorError))
         ELSE Return([instance |-> instance,
                      endpoint |-> opts.microsoftFoundryEndpoint,
                      auth |-> "apiKey",
                      apiKey |-> opts.microsoftFoundryApiKey,
                      apiVersion |-> getApiVersion(opts)])

\* Mutant of ensureClient: the cached client is not reused, a client is
\* constructed on every call
ensureClient_NoCache(opts, cl, ctorError, instance) ==
    IF ~TruthyStr(opts, "microsoftFoundryEndpoint")
    THEN Throw(NewError(MSG_ENDPOINT_REQUIRED))
    ELSE IF /\ ~TruthyStr(opts, "microsoftFoundryApiKey")
            /\ ~TruthyBool(opts, "microsoftFoundryUseIdentity")
    THEN Throw(NewError(MSG_AUTH_REQUIRED))
    ELSE IF Threw(ConstructClient(opts, ctorError, instance))
    THEN Throw(WrapError(opts, Val(ConstructClient(opts, ctorError, instance).thrown)))
    ELSE Return(ConstructClient(opts, ctorError, instance).value)

\* Mutant of ensureClient: the authentication is validated before the
\* endpoint
ensureClient_AuthFirst(opts, cl, ctorError, instance) ==
    IF IsSome(cl) THEN Return(Val(cl))
    ELSE IF /\ ~TruthyStr(opts, "microsoftFoundryApiKey")
            /\ ~TruthyBool(opts, "microsoftFoundryUseIdentity")
    THEN Throw(NewError(MSG_AUTH_REQUIRED))
    ELSE IF ~TruthyStr(opts, "microsoftFoundryEndpoint")
    THEN Throw(NewError(MSG_ENDPOINT_REQUIRED))
    ELSE IF Threw(ConstructClient(opts, ctorError, instance))
    THEN Throw(WrapError(opts, Val(ConstructClient(opts, ctorError, instance).thrown)))
    ELSE Return(ConstructClient(opts, ctorError, instance).value)

\* ensureClient: returns the client, which is also the new value of
\* this.client, or throws.  cl is this.client before the call.
ensureClient(opts, cl, ctorError, instance) ==
    IF IsSome(cl) THEN Return(Val(cl))
    ELSE IF ~TruthyStr(opts, "microsoftFoundryEndpoint")
    THEN Throw(NewError(MSG_ENDPOINT_REQUIRED))
    ELSE IF /\ ~TruthyStr(opts, "microsoftFoundryApiKey")
            /\ ~TruthyBool(opts, "microsoftFoundryUseIdentity")
    THEN Throw(NewError(MSG_AUTH_REQUIRED))
    ELSE IF Threw(ConstructClient(opts, ctorError, instance))
    THEN Throw(WrapError(opts, Val(ConstructClient(opts, ctorError, instance).thrown)))
    ELSE Return(ConstructClient(opts, ctorError, instance).value)

-----------------------------------------------------------------------------
(* Request shaping *)

REASONING_PREFIXES == { <<"o","1">>, <<"o","3">>, <<"o","4">> }
STR_CHAT == <<"c","h","a","t">>
STR_GPT_5 == <<"g","p","t","-","5">>
STR_GPT5 == <<"g","p","t","5">>

\* this.options.microsoftFoundryModelInfo ?? getModelCapabilities(deploymentId)
ModelInfoOf(opts, deploymentId) ==
    IF Has(opts, "microsoftFoundryModelInfo")
    THEN opts.microsoftFoundryModelInfo
    ELSE getModelCapabilities(deploymentId)

isReasoningModel(opts, deploymentId) ==
    LET deploymentLower == ToLowerCase(deploymentId)
    IN  \/ TruthyBool(ModelInfoOf(opts, deploymentId), "supportsReasoning")
        \/ /\ \E prefix \in REASONING_PREFIXES :
                  Includes(deploymentLower, prefix)
           /\ ~Includes(deploymentLower, STR_CHAT)

\* Mutant of noTemperatureSupport: only reasoning models go without a
\* temperature
noTemperatureSupport_ReasoningOnly(opts, deploymentId) ==
    isReasoningModel(opts, deploymentId)

noTemperatureSupport(opts, deploymentId) ==
    LET deploymentLower == ToLowerCase(deploymentId)
    IN  \/ Includes(deploymentLower, STR_GPT_5)
        \/ Includes(deploymentLower, STR_GPT5)
        \/ isReasoningModel(opts, deploymentId)

\* The fixed default temperature 0.7, in tenths
DEFAULT_TEMPERATURE == 7

\* An object with no property
EmptyObject == << >>

\* convertToOpenAiMessages: each message of the history keeps its role and
\* its content.
convertToOpenAiMessages(messages) ==
    [i \in DOMAIN messages |->
        [role |-> messages[i].role, content |-> messages[i].content]]

\* getOpenAIToolParams: the provider's tool parameters for a non-empty tool
\* list, no parameter at all otherwise.  tools is <<>> or <<the list>>.
getOpenAIToolParams(tools) ==
    IF IsSome(tools) /\ Len(Val(tools)) > 0
    THEN [tools |-> Val(tools), tool_choice |-> "auto"]
    ELSE EmptyObject

\* The role under which the system prompt is sent
SystemRole(opts, deploymentId) ==
    IF isReasoningModel(opts, deploymentId) THEN "developer" ELSE "system"

\* Mutant of ReasoningEffortOf: the configured hint is passed on as it is,
\* with no default for a missing or empty hint.
ReasoningEffortOf_NoDefault(opts, deploymentId) ==
    IF isReasoningModel(opts, deploymentId) /\ Has(opts, "reasoningEffort")
    THEN Some(opts.reasoningEffort)
    ELSE None

\* Mutant of ReasoningEffortOf: the configured hint is ignored
ReasoningEffortOf_AlwaysMedium(opts, deploymentId) ==
    IF isReasoningModel(opts, deploymentId) THEN Some("medium") ELSE None

\* (this.options.reasoningEffort as ChatCompletionReasoningEffort) || "medium"
\* for a reasoning model; undefined otherwise.
ReasoningEffortOf(opts, deploymentId) ==
    IF isReasoningModel(opts, deploymentId)
    THEN IF Has(opts, "reasoningEffort") /\ opts.reasoningEffort # ""
         THEN Some(opts.reasoningEffort) ELSE Some("medium")
    ELSE None

\* The parameters createMessage passes to client.chat.completions.create
BuildRequest(opts, deploymentId, a) ==
    LET openAiMessages ==
            << [role |-> SystemRole(opts, deploymentId),
                content |-> a.systemPrompt] >>
              \o convertToOpenAiMessages(a.messages)
        temperature ==
            IF noTemperatureSupport(opts, deploymentId) THEN EmptyObject
            ELSE [temperature |-> DEFAULT_TEMPERATURE]
        reasoningEffort == ReasoningEffortOf(opts, deploymentId)
        effort ==
            IF IsSome(reasoningEffort) /\ Val(reasoningEffort) # ""
            THEN [reasoning_effort |-> Val(reasoningEffort)]
            ELSE EmptyObject
        base == [model |-> deploymentId,
                 messages |-> openAiMessages,
                 stream |-> TRUE,
                 stream_options |-> [include_usage |-> TRUE]]
    IN  Spread(Spread(Spread(base, temperature), effort),
               getOpenAIToolParams(a.tools))

-----------------------------------------------------------------------------
(* Tool-call reassembly (ToolCallProcessor)                                  *)
(* A fragment is [index |-> n] with optional id, name and arguments.  The    *)
(* processor holds the accumulators that are open, in the order they were    *)
(* opened, and the indices already completed.                                *)

NewToolCallProcessor == [open |-> << >>, closed |-> {}]

NewAccumulator(frag) ==
    [index |-> frag.index,
     id |-> IF Has(frag, "id") THEN frag.id ELSE STR_EMPTY,
     name |-> IF Has(frag, "name") THEN frag.name ELSE STR_EMPTY,
     argumentBuffer |-> IF Has(frag, "arguments") THEN frag.arguments
                        ELSE STR_EMPTY]

\* A fragment merged into the accumulator of its index
Accumulate(acc, frag) ==
    [index |-> acc.index,
     id |-> IF acc.id = STR_EMPTY /\ Has(frag, "id") THEN frag.id ELSE acc.id,
     name |-> IF acc.name = STR_EMPTY /\ Has(frag, "name") THEN frag.name
              ELSE acc.name,
     argumentBuffer |-> IF Has(frag, "arguments")
                        THEN acc.argumentBuffer \o frag.arguments
                        ELSE acc.argumentBuffer]

\* The event that closes an accumulator
ToolCallComplete(acc) ==
    [type |-> "tool_call_complete", index |-> acc.index, id |-> acc.id,
     name |-> acc.name, arguments |-> acc.argumentBuffer]

IsOpen(state, index) ==
    \E i \in DOMAIN state.open : state.open[i].index = index

\* One fragment applied: [state |-> the processor after it, events |-> the
\* events it produces].
ApplyFragment(state, frag) ==
    IF frag.index \in state.closed
    THEN [state |-> state, events |-> << >>]
    ELSE IF IsOpen(state, frag.index)
    THEN [state |->
            [open |-> [i \in DOMAIN state.open |->
                          IF state.open[i].index = frag.index
                          THEN Accumulate(state.open[i], frag)
                          ELSE state.open[i]],
             closed |-> state.closed],
          events |-> << >>]
    ELSE [state |->
            [open |-> << NewAccumulator(frag) >>,
             closed |-> state.closed
                          \cup {state.open[i].index : i \in DOMAIN state.open}],
          events |-> [i \in DOMAIN state.open |->
                        ToolCallComplete(state.open[i])]]

RECURSIVE processToolCallDeltas(_, _)
processToolCallDeltas(state, toolCallDeltas) ==
    IF toolCallDeltas = << >>
    THEN [state |-> state, events |-> << >>]
    ELSE LET first == ApplyFragment(state, Head(toolCallDeltas))
             rest == processToolCallDeltas(first.state, Tail(toolCallDeltas))
         IN  [state |-> rest.state, events |-> first.events \o rest.events]

-----------------------------------------------------------------------------
(* Streaming event normalisation                                             *)
(* A chunk is [kind |-> "null"] (null or undefined), [kind |-> "primitive"]  *)
(* (a value that is no object) or [kind |-> "object"] with the optional      *)
(* properties choices and usage.                                             *)

\* chunk.choices?.[0]?.delta, <<>> when undefined
DeltaOf(chunk) ==
    IF /\ Has(chunk, "choices")
       /\ Len(chunk.choices) >= 1
       /\ Has(chunk.choices[1], "delta")
    THEN Some(chunk.choices[1].delta)
    ELSE None

TextEvents(delta) ==
    IF IsSome(delta) /\ Has(Val(delta), "content") /\ Val(delta).content # ""
    THEN << [type |-> "text", text |-> Val(delta).content] >>
    ELSE << >>

ReasoningEvents(delta) ==
    IF /\ IsSome(delta)
       /\ Has(Val(delta), "reasoning_content")
       /\ Val(delta).reasoning_content # ""
    THEN << [type |-> "reasoning", reasoning |-> Val(delta).reasoning_content] >>
    ELSE << >>

\* The processor's result for the chunk's tool-call fragments
ToolCallsOf(state, delta) ==
    IF IsSome(delta) /\ Has(Val(delta), "tool_calls")
    THEN processToolCallDeltas(state, Val(delta).tool_calls)
    ELSE [state |-> state, events |-> << >>]

\* x || 0
OrZero(o, f) == IF Has(o, f) THEN o[f] ELSE 0

UsageEvents(chunk) ==
    IF Has(chunk, "usage")
    THEN << [type |-> "usage",
             inputTokens |-> OrZero(chunk.usage, "prompt_tokens"),
             outputTokens |-> OrZero(chunk.usage, "completion_tokens"),
             cacheReadTokens |->
                IF Has(chunk.usage, "prompt_tokens_details")
                THEN OrZero(chunk.usage.prompt_tokens_details, "cached_tokens")
                ELSE 0,
             cacheWriteTokens |-> 0] >>
    ELSE << >>

\* Mutant of ChunkEvents: the usage event is yielded before the content
ChunkEvents_UsageFirst(state, chunk) ==
    UsageEvents(chunk)
      \o TextEvents(DeltaOf(chunk))
      \o ReasoningEvents(DeltaOf(chunk))
      \o ToolCallsOf(state, DeltaOf(chunk)).events

\* The events one chunk yields, in the order the loop body yields them
ChunkEvents(state, chunk) ==
    TextEvents(DeltaOf(chunk))
      \o ReasoningEvents(DeltaOf(chunk))
      \o ToolCallsOf(state, DeltaOf(chunk)).events
      \o UsageEvents(chunk)

\* Reading chunk.choices of null or undefined raises a TypeError
ChunkThrows(chunk) == chunk.kind = "null"

TypeErrorOfNull == NewError(MSG_NULL_CHUNK)

-----------------------------------------------------------------------------
(* Retry wrapper (withRetry)                                                 *)

\* The number of retries after the first attempt
MaxRetries == 3

\* Mutant of ShouldRetry: every error is retried, also after events were
\* delivered
ShouldRetry_AllErrors(err, emitted, att) == att < MaxRetries

\* Whether the wrapper retries after an attempt failed with err: only an
\* error marked retryable, only while nothing was delivered to the caller,
\* and only MaxRetries times.
ShouldRetry(err, emitted, att) ==
    /\ TruthyBool(err, "retryable")
    /\ ~emitted
    /\ att < MaxRetries

-----------------------------------------------------------------------------
(* Bounds of the model *)

\* Chunks the provider delivers in one attempt
MaxChunks == 3

\* createMessage calls the caller makes on the handler
MaxCalls == 2

-----------------------------------------------------------------------------
(* The handler and one caller *)

NoArgs == [systemPrompt |-> "", messages |-> << >>, tools |-> None]

\* new MicrosoftFoundryHandler(opts), no createMessage call made yet
InitHandler(opts) ==
    /\ options = opts
    /\ client = None
    /\ clientsBuilt = 0
    /\ calls = 0
    /\ pc = "idle"
    /\ attempt = 0
    /\ args = NoArgs
    /\ request = None
    /\ providerCalls = 0
    /\ backoffs = 0
    /\ chunksSeen = << >>
    /\ toolState = NewToolCallProcessor
    /\ outbox = << >>
    /\ delivered = << >>
    /\ caught = None
    /\ surfaced = None
    /\ stream = "none"
    /\ model = None

\* The caller calls createMessage(systemPrompt, messages, tools) and starts
\* to iterate; the previous call, if any, has ended.
CallCreateMessage(a) ==
    /\ pc \in {"idle", "done", "failed", "returned"}
    /\ calls < MaxCalls
    /\ calls' = calls + 1
    /\ pc' = "start"
    /\ attempt' = 0
    /\ args' = a
    /\ request' = None
    /\ providerCalls' = 0
    /\ backoffs' = 0
    /\ chunksSeen' = << >>
    /\ toolState' = NewToolCallProcessor
    /\ outbox' = << >>
    /\ delivered' = << >>
    /\ caught' = None
    /\ surfaced' = None
    /\ stream' = "none"
    /\ UNCHANGED nonHandlerVars
    /\ UNCHANGED << options, client, clientsBuilt >>

\* The attempt threw err out of the wrapped generator: the wrapper sleeps
\* the backoff delay and starts the next attempt, or throws err to the
\* caller.
AttemptThrew(err) ==
    IF ShouldRetry(err, delivered # << >>, attempt)
    THEN /\ pc' = "start"
         /\ attempt' = attempt + 1
         /\ backoffs' = backoffs + 1
         /\ surfaced' = surfaced
    ELSE /\ pc' = "failed"
         /\ surfaced' = Some(err)
         /\ UNCHANGED << attempt, backoffs >>

\* Mutant of StartAttempt: the deployment is checked before the client is
\* provisioned
StartAttempt_DeploymentFirst(ctorError) ==
    /\ pc = "start"
    /\ IF ~TruthyStr(options, "microsoftFoundryDeploymentId")
       THEN /\ AttemptThrew(NewError(MSG_NO_DEPLOYMENT))
            /\ caught' = None
            /\ UNCHANGED << client, clientsBuilt, request, providerCalls >>
       ELSE LET ensured == ensureClient(options, client, ctorError, clientsBuilt + 1)
               deploymentId == options.microsoftFoundryDeploymentId
               constructing ==
                   /\ IsNone(client)
                   /\ TruthyStr(options, "microsoftFoundryEndpoint")
                   /\ \/ TruthyStr(options, "microsoftFoundryApiKey")
                      \/ TruthyBool(options, "microsoftFoundryUseIdentity")
           IN  IF Threw(ensured)
               THEN /\ AttemptThrew(Val(ensured.thrown))
                    /\ caught' = IF constructing
                                 THEN ConstructClient(options, ctorError,
                                                      clientsBuilt + 1).thrown
                                 ELSE None
                    /\ UNCHANGED << client, clientsBuilt, request, providerCalls >>
               ELSE /\ client' = Some(ensured.value)
                    /\ clientsBuilt' = IF ensured.value.instance > clientsBuilt
                                       THEN clientsBuilt + 1
                                       ELSE clientsBuilt
                    /\ IF ~TruthyStr(options, "microsoftFoundryDeploymentId")
                       THEN /\ AttemptThrew(NewError(MSG_NO_DEPLOYMENT))
                            /\ caught' = None
                            /\ UNCHANGED << request, providerCalls >>
                       ELSE /\ request' = Some(BuildRequest(options, deploymentId, args))
                            /\ providerCalls' = providerCalls + 1
                            /\ pc' = "creating"
                            /\ caught' = None
                            /\ UNCHANGED << attempt, backoffs, surfaced >>
    /\ chunksSeen' = << >>
    /\ toolState' = NewToolCallProcessor
    /\ outbox' = << >>
    /\ stream' = "none"
    /\ UNCHANGED nonHandlerVars
    /\ UNCHANGED << options, calls, args, delivered >>

\* createMessage up to the await of chat.completions.create: ensureClient,
\* the deployment check, request shaping and the provider call.
StartAttempt(ctorError) ==
    /\ pc = "start"
    /\ LET ensured == ensureClient(options, client, ctorError, clientsBuilt + 1)
           deploymentId == options.microsoftFoundryDeploymentId
           constructing ==
               /\ IsNone(client)
               /\ TruthyStr(options, "microsoftFoundryEndpoint")
               /\ \/ TruthyStr(options, "microsoftFoundryApiKey")
                  \/ TruthyBool(options, "microsoftFoundryUseIdentity")
       IN  IF Threw(ensured)
           THEN /\ AttemptThrew(Val(ensured.thrown))
                /\ caught' = IF constructing
                             THEN ConstructClient(options, ctorError,
                                                  clientsBuilt + 1).thrown
                             ELSE None
                /\ UNCHANGED << client, clientsBuilt, request, providerCalls >>
           ELSE /\ client' = Some(ensured.value)
                /\ clientsBuilt' = IF ensured.value.instance > clientsBuilt
                                   THEN clientsBuilt + 1
                                   ELSE clientsBuilt
                /\ IF ~TruthyStr(options, "microsoftFoundryDeploymentId")
                   THEN /\ AttemptThrew(NewError(MSG_NO_DEPLOYMENT))
                        /\ caught' = None
                        /\ UNCHANGED << request, providerCalls >>
                   ELSE /\ request' = Some(BuildRequest(options, deploymentId, args))
                        /\ providerCalls' = providerCalls + 1
                        /\ pc' = "creating"
                        /\ caught' = None
                        /\ UNCHANGED << attempt, backoffs, surfaced >>
    /\ chunksSeen' = << >>
    /\ toolState' = NewToolCallProcessor
    /\ outbox' = << >>
    /\ stream' = "none"
    /\ UNCHANGED nonHandlerVars
    /\ UNCHANGED << options, calls, args, delivered >>

\* chat.completions.create resolves with a stream
ProviderCreated ==
    /\ pc = "creating"
    /\ pc' = "streaming"
    /\ stream' = "open"
    /\ toolState' = NewToolCallProcessor
    /\ UNCHANGED nonHandlerVars
    /\ UNCHANGED << options, client, clientsBuilt, calls, attempt, args,
                    request, providerCalls, backoffs, chunksSeen, outbox,
                    delivered, caught, surfaced >>

\* chat.completions.create rejects with err
ProviderCreateFailed(err) ==
    /\ pc = "creating"
    /\ caught' = Some(err)
    /\ AttemptThrew(WrapError(options, err))
    /\ UNCHANGED nonHandlerVars
    /\ UNCHANGED << options, client, clientsBuilt, calls, args, request,
                    providerCalls, chunksSeen, toolState, outbox, delivered,
                    stream >>

\* The loop pulls the next chunk of the stream and runs the loop body up to
\* its first yield.  When the body throws, the for-await loop closes the
\* stream's iterator before the exception reaches the catch block.
PullChunk(chunk) ==
    /\ pc = "streaming"
    /\ outbox = << >>
    /\ Len(chunksSeen) < MaxChunks
    /\ chunksSeen' = Append(chunksSeen, chunk)
    /\ IF ChunkThrows(chunk)
       THEN /\ caught' = Some(TypeErrorOfNull)
            /\ AttemptThrew(WrapError(options, TypeErrorOfNull))
            /\ stream' = "released"
            /\ UNCHANGED << toolState, outbox >>
       ELSE /\ outbox' = ChunkEvents(toolState, chunk)
            /\ toolState' = ToolCallsOf(toolState, DeltaOf(chunk)).state
            /\ UNCHANGED << pc, attempt, backoffs, caught, surfaced, stream >>
    /\ UNCHANGED nonHandlerVars
    /\ UNCHANGED << options, client, clientsBuilt, calls, args, request,
                    providerCalls, delivered >>

\* The generator yields the next event of the current chunk to the caller.
\* Each delivered event is recorded with the attempt and the position of
\* the chunk it comes from.
YieldEvent ==
    /\ pc = "streaming"
    /\ outbox # << >>
    /\ delivered' = Append(delivered, [event |-> Head(outbox),
                                       attempt |-> attempt,
                                       chunk |-> Len(chunksSeen)])
    /\ outbox' = Tail(outbox)
    /\ UNCHANGED nonHandlerVars
    /\ UNCHANGED << options, client, clientsBuilt, calls, pc, attempt, args,
                    request, providerCalls, backoffs, chunksSeen, toolState,
                    caught, surfaced, stream >>

\* The provider closes the stream: the loop ends and the generator returns
StreamEnd ==
    /\ pc = "streaming"
    /\ outbox = << >>
    /\ pc' = "done"
    /\ stream' = "ended"
    /\ UNCHANGED nonHandlerVars
    /\ UNCHANGED << options, client, clientsBuilt, calls, attempt, args,
                    request, providerCalls, backoffs, chunksSeen, toolState,
                    outbox, delivered, caught, surfaced >>

\* Pulling the next chunk rejects with err
StreamFailed(err) ==
    /\ pc = "streaming"
    /\ outbox = << >>
    /\ caught' = Some(err)
    /\ AttemptThrew(WrapError(options, err))
    /\ stream' = "ended"
    /\ UNCHANGED nonHandlerVars
    /\ UNCHANGED << options, client, clientsBuilt, calls, args, request,
                    providerCalls, chunksSeen, toolState, outbox, delivered >>

\* The generator is suspended at a yield of the loop body: the caller has
\* received an event and has not asked for the next one
SuspendedAtYield ==
    /\ pc = "streaming"
    /\ delivered # << >>
    /\ delivered[Len(delivered)].attempt = attempt
    /\ delivered[Len(delivered)].chunk = Len(chunksSeen)

\* Mutant of ConsumerReturn: the loop is left without closing the stream's
\* iterator
ConsumerReturn_StreamLeftOpen ==
    /\ SuspendedAtYield
    /\ pc' = "returned"
    /\ outbox' = << >>
    /\ UNCHANGED nonHandlerVars
    /\ UNCHANGED << options, client, clientsBuilt, calls, attempt, args,
                    request, providerCalls, backoffs, chunksSeen, toolState,
                    delivered, caught, surfaced, stream >>

\* The caller stops iterating (break out of its for-await loop, which calls
\* return() on the generator): the return completion leaves the for-await
\* loop over the provider stream at the yield where the generator is
\* suspended, the loop closes the stream's iterator, the catch block is
\* passed by and the generator is finished.
ConsumerReturn ==
    /\ SuspendedAtYield
    /\ pc' = "returned"
    /\ stream' = "released"
    /\ outbox' = << >>
    /\ UNCHANGED nonHandlerVars
    /\ UNCHANGED << options, client, clientsBuilt, calls, attempt, args,
                    request, providerCalls, backoffs, chunksSeen, toolState,
                    delivered, caught, surfaced >>

\* getModel(): the deployment id and the stored model info, or the static
\* capabilities of the deployment id when none is stored
GetModel ==
    /\ LET deploymentId == IF Has(options, "microsoftFoundryDeploymentId")
                           THEN options.microsoftFoundryDeploymentId
                           ELSE STR_EMPTY
       IN  model' = Some([id |-> deploymentId,
                          info |-> ModelInfoOf(options, deploymentId)])
    /\ UNCHANGED outsideVars
    /\ UNCHANGED handlerVars

-----------------------------------------------------------------------------
(* A second caller on the same handler                                       *)
(* Its createMessage call runs while the call of the first caller is in      *)
(* progress or between the first caller's calls; the generator object of     *)
(* the call holds its own locals, the handler's fields are shared.           *)

\* The locals of a createMessage call that has not been made
IdleCall ==
    [pc |-> "idle", attempt |-> 0, request |-> None, chunksSeen |-> << >>,
     toolState |-> NewToolCallProcessor, outbox |-> << >>,
     delivered |-> << >>, surfaced |-> None]

InitOther == other = IdleCall

\* The attempt of the second call threw err out of the wrapped generator
OtherThrew(call, err) ==
    IF ShouldRetry(err, call.delivered # << >>, call.attempt)
    THEN [call EXCEPT !.pc = "start", !.attempt = call.attempt + 1]
    ELSE [call EXCEPT !.pc = "failed", !.surfaced = Some(err)]

\* The second caller calls createMessage and starts to iterate, or the
\* wrapper starts the next attempt: ensureClient on the shared this.client,
\* the deployment check, request shaping and the provider call
OtherStart(a, ctorError) ==
    /\ other.pc \in {"idle", "start"}
    /\ LET ensured == ensureClient(options, client, ctorError, clientsBuilt + 1)
           deploymentId == options.microsoftFoundryDeploymentId
           fresh == [other EXCEPT !.chunksSeen = << >>,
                                  !.toolState = NewToolCallProcessor,
                                  !.outbox = << >>]
       IN  IF Threw(ensured)
           THEN /\ other' = OtherThrew(fresh, Val(ensured.thrown))
                /\ UNCHANGED << client, clientsBuilt >>
           ELSE /\ client' = Some(ensured.value)
                /\ clientsBuilt' = IF ensured.value.instance > clientsBuilt
                                   THEN clientsBuilt + 1
                                   ELSE clientsBuilt
                /\ other' =
                     IF ~TruthyStr(options, "microsoftFoundryDeploymentId")
                     THEN OtherThrew(fresh, NewError(MSG_NO_DEPLOYMENT))
                     ELSE [fresh EXCEPT
                             !.pc = "creating",
                             !.request = Some(BuildRequest(options,
                                                           deploymentId, a))]
    /\ UNCHANGED << options, firstCallVars, model, outsideVars >>

\* chat.completions.create of the second call resolves with a stream; the
\* call constructs its ToolCallProcessor
OtherCreated ==
    /\ other.pc = "creating"
    /\ other' = [other EXCEPT !.pc = "streaming",
                              !.toolState = NewToolCallProcessor]
    /\ UNCHANGED << options, client, clientsBuilt, firstCallVars, model,
                    outsideVars >>

\* Mutant of OtherPull: the ToolCallProcessor is a field of the handler that
\* the calls share
OtherPull_SharedProcessor(chunk) ==
    /\ other.pc = "streaming"
    /\ other.outbox = << >>
    /\ Len(other.chunksSeen) < MaxChunks
    /\ IF ChunkThrows(chunk)
       THEN /\ other' = OtherThrew(
                   [other EXCEPT !.chunksSeen = Append(other.chunksSeen, chunk)],
                   WrapError(options, TypeErrorOfNull))
            /\ UNCHANGED toolState
       ELSE /\ other' = [other EXCEPT
                   !.chunksSeen = Append(other.chunksSeen, chunk),
                   !.outbox = ChunkEvents(toolState, chunk)]
            /\ toolState' = ToolCallsOf(toolState, DeltaOf(chunk)).state
    /\ UNCHANGED << options, client, clientsBuilt, calls, pc, attempt, args,
                    request, providerCalls, backoffs, chunksSeen, outbox,
                    delivered, caught, surfaced, stream, model, outsideVars >>

\* The loop of the second call pulls the next chunk of its stream and runs
\* the loop body up to its first yield, with the call's own processor
OtherPull(chunk) ==
    /\ other.pc = "streaming"
    /\ other.outbox = << >>
    /\ Len(other.chunksSeen) < MaxChunks
    /\ other' =
         IF ChunkThrows(chunk)
         THEN OtherThrew(
                 [other EXCEPT !.chunksSeen = Append(other.chunksSeen, chunk)],
                 WrapError(options, TypeErrorOfNull))
         ELSE [other EXCEPT
                 !.chunksSeen = Append(other.chunksSeen, chunk),
                 !.outbox = ChunkEvents(other.toolState, chunk),
                 !.toolState = ToolCallsOf(other.toolState,
                                           DeltaOf(chunk)).state]
    /\ UNCHANGED << options, client, clientsBuilt, firstCallVars, model,
                    outsideVars >>

\* The generator of the second call yields the next event to its caller
OtherYield ==
    /\ other.pc = "streaming"
    /\ other.outbox # << >>
    /\ other' = [other EXCEPT
                   !.delivered = Append(other.delivered, Head(other.outbox)),
                   !.outbox = Tail(other.outbox)]
    /\ UNCHANGED << options, client, clientsBuilt, firstCallVars, model,
                    outsideVars >>

\* The provider closes the stream of the second call
OtherEnd ==
    /\ other.pc = "streaming"
    /\ other.outbox = << >>
    /\ other' = [other EXCEPT !.pc = "done"]
    /\ UNCHANGED << options, client, clientsBuilt, firstCallVars, model,
                    outsideVars >>

\* chat.completions.create of the second call rejects, or pulling the next
\* chunk of its stream rejects, with err
OtherFailed(err) ==
    /\ \/ other.pc = "creating"
       \/ other.pc = "streaming" /\ other.outbox = << >>
    /\ other' = OtherThrew(other, WrapError(options, err))
    /\ UNCHANGED << options, client, clientsBuilt, firstCallVars, model,
                    outsideVars >>

-----------------------------------------------------------------------------
(* The provider settings view (MicrosoftFoundryProvider)                     *)
(* A discovered deployment is [id |-> s, model |-> s].  The response of the  *)
(* deployment service is [rejected |-> message] when the call rejects, or a  *)
(* record with the optional properties error and deployments.                *)

MSG_ENTER_ENDPOINT == "Please enter an endpoint URL first"
MSG_NO_DEPLOYMENTS ==
    "No deployments found. Deploy a model in Azure AI Foundry first, then click Refresh."

\* The settings view is mounted over the stored configuration cfg
InitSettings(cfg) ==
    /\ deployments = << >>
    /\ discoveryError = None
    /\ apiConfiguration = cfg

\* { id: d.id ?? "", model: d.model ?? d.id ?? "" }
ToDeployment(d) ==
    [id |-> IF Has(d, "id") THEN d.id ELSE STR_EMPTY,
     model |-> IF Has(d, "model") THEN d.model
               ELSE IF Has(d, "id") THEN d.id ELSE STR_EMPTY]

\* discoverDeployments, with the outcome of getMicrosoftFoundryDeployments
DiscoverDeployments(response) ==
    /\ IF ~TruthyStr(apiConfiguration, "microsoftFoundryEndpoint")
       THEN /\ discoveryError' = Some(MSG_ENTER_ENDPOINT)
            /\ UNCHANGED deployments
       ELSE IF Has(response, "rejected")
       THEN /\ discoveryError' = Some(response.rejected)
            /\ UNCHANGED deployments
       ELSE IF Has(response, "error") /\ response.error # ""
       THEN /\ discoveryError' = Some(response.error)
            /\ UNCHANGED deployments
       ELSE LET discoveredDeployments ==
                    IF Has(response, "deployments")
                    THEN [i \in DOMAIN response.deployments |->
                             ToDeployment(response.deployments[i])]
                    ELSE << >>
            IN  /\ deployments' = discoveredDeployments
                /\ discoveryError' = IF Len(discoveredDeployments) = 0
                                     THEN Some(MSG_NO_DEPLOYMENTS)
                                     ELSE None
    /\ UNCHANGED << model, apiConfiguration >>
    /\ UNCHANGED << handlerVars, azureVars, serviceVars >>

\* deployments.find((d) => d.id === deploymentId)
FindDeployment(deploymentId) ==
    LET hits == {i \in DOMAIN deployments : deployments[i].id = deploymentId}
    IN  IF hits = {} THEN None
        ELSE Some(deployments[CHOOSE i \in hits : \A j \in hits : i <= j])

\* The values the deployment dropdown offers: "" and the discovered ids
DropdownValues ==
    {STR_EMPTY} \cup {deployments[i].id : i \in DOMAIN deployments}

\* handleDeploymentChange(deploymentId) in mode currentMode: the dropdown is
\* shown when the environment is not "stack" and deployments were
\* discovered; the deployment id and its model info are stored for the
\* mode.
HandleDeploymentChange(currentMode, deploymentId) ==
    /\ ~( /\ Has(apiConfiguration, "microsoftFoundryCloudEnvironment")
          /\ apiConfiguration.microsoftFoundryCloudEnvironment = "stack" )
    /\ Len(deployments) > 0
    /\ deploymentId \in DropdownValues
    /\ LET deployment == FindDeployment(deploymentId)
           modelInfo == IF IsSome(deployment)
                        THEN SettingsGetModelCapabilities(Val(deployment).model)
                        ELSE SETTINGS_DEFAULT_MODEL_INFO
       IN  apiConfiguration' =
               IF currentMode = "plan"
               THEN Spread(apiConfiguration,
                        [planModeMicrosoftFoundryDeploymentId |-> deploymentId,
                         planModeMicrosoftFoundryModelInfo |-> modelInfo])
               ELSE Spread(apiConfiguration,
                        [actModeMicrosoftFoundryDeploymentId |-> deploymentId,
                         actModeMicrosoftFoundryModelInfo |-> modelInfo])
    /\ UNCHANGED << model, deployments, discoveryError >>
    /\ UNCHANGED << handlerVars, azureVars, serviceVars >>

\* The cloud environment radio group: handleFieldChange of the environment
HandleCloudEnvironmentChange(value) ==
    /\ apiConfiguration' =
          Spread(apiConfiguration, [microsoftFoundryCloudEnvironment |-> value])
    /\ UNCHANGED << model, deployments, discoveryError >>
    /\ UNCHANGED << handlerVars, azureVars, serviceVars >>

\* The manual deployment field, shown when the environment is "stack" or no
\* deployment is discovered: handleModeFieldChange of the deployment id of
\* the mode, and of nothing else
HandleManualDeploymentId(currentMode, value) ==
    /\ \/ /\ Has(apiConfiguration, "microsoftFoundryCloudEnvironment")
          /\ apiConfiguration.microsoftFoundryCloudEnvironment = "stack"
       \/ Len(deployments) = 0
    /\ apiConfiguration' =
          IF currentMode = "plan"
          THEN Spread(apiConfiguration,
                      [planModeMicrosoftFoundryDeploymentId |-> value])
          ELSE Spread(apiConfiguration,
                      [actModeMicrosoftFoundryDeploymentId |-> value])
    /\ UNCHANGED << model, deployments, discoveryError >>
    /\ UNCHANGED << handlerVars, azureVars, serviceVars >>

-----------------------------------------------------------------------------
(* The Azure OpenAI settings view (AzureOpenAIProvider)                      *)
(* The view reads the stored configuration (apiConfiguration) and writes a   *)
(* field of it with handleFieldChange.  A pending timer is                   *)
(* [id, remaining, baseUrl, apiKey]: remaining is the time in ms until it    *)
(* is due, baseUrl and apiKey are the arguments its callback closes over,    *)
(* <<>> when undefined.  openAiHeaders is a function from header names to    *)
(* header values.                                                            *)

\* The delay of the refresh timer, in ms
DEBOUNCE_MS == 500

\* Headers the editor may hold, refresh timers set and refresh requests
\* issued in one run
MaxHeaders == 3
MaxTimers == 3
MaxRefreshes == 2

\* The view is mounted, no timer was set and no request issued
InitAzure ==
    /\ mounted = TRUE
    /\ debounceTimerRef = None
    /\ timers = {}
    /\ timersSet = 0
    /\ refreshRequests = << >>
    /\ lastChange = None

\* apiConfiguration?.field, <<>> when undefined
FieldOf(cfg, f) == IF Has(cfg, f) THEN Some(cfg[f]) ELSE None

\* An optional string is truthy
TruthyOpt(x) == IsSome(x) /\ Val(x) # STR_EMPTY

\* clearTimeout(id)
ClearTimeout(pending, id) == { t \in pending : t.id # id }

\* Mutant of debouncedRefreshOpenAiModels: the pending timer is not cleared
debouncedRefreshOpenAiModels_NoClear(baseUrl, apiKey) ==
    IF TruthyOpt(baseUrl) /\ TruthyOpt(apiKey)
    THEN [ref |-> Some(timersSet + 1),
          timers |-> timers \cup { [id |-> timersSet + 1,
                                    remaining |-> DEBOUNCE_MS,
                                    baseUrl |-> baseUrl,
                                    apiKey |-> apiKey] },
          timersSet |-> timersSet + 1]
    ELSE [ref |-> debounceTimerRef, timers |-> timers, timersSet |-> timersSet]

\* debouncedRefreshOpenAiModels(baseUrl, apiKey): the timer of the ref is
\* cleared, and a timer is set when both arguments are truthy.  The result
\* is the ref, the pending timers and the number of timers set afterwards.
debouncedRefreshOpenAiModels(baseUrl, apiKey) ==
    LET cleared == IF IsSome(debounceTimerRef)
                   THEN ClearTimeout(timers, Val(debounceTimerRef))
                   ELSE timers
    IN  IF TruthyOpt(baseUrl) /\ TruthyOpt(apiKey)
        THEN [ref |-> Some(timersSet + 1),
              timers |-> cleared \cup { [id |-> timersSet + 1,
                                         remaining |-> DEBOUNCE_MS,
                                         baseUrl |-> baseUrl,
                                         apiKey |-> apiKey] },
              timersSet |-> timersSet + 1]
        ELSE [ref |-> debounceTimerRef, timers |-> cleared,
              timersSet |-> timersSet]

\* A change of the endpoint or of the API key calls the debounced refresh
\* with baseUrl and apiKey
ChangeWith(baseUrl, apiKey) ==
    LET next == debouncedRefreshOpenAiModels(baseUrl, apiKey)
    IN  /\ next.timersSet <= MaxTimers
        /\ debounceTimerRef' = next.ref
        /\ timers' = next.timers
        /\ timersSet' = next.timersSet
        /\ lastChange' = Some([elapsed |-> 0, baseUrl |-> baseUrl,
                               apiKey |-> apiKey])

\* onChange of the endpoint field
HandleBaseUrlChange(value) ==
    /\ mounted
    /\ apiConfiguration' = Spread(apiConfiguration, [openAiBaseUrl |-> value])
    /\ ChangeWith(Some(value), FieldOf(apiConfiguration, "openAiApiKey"))
    /\ UNCHANGED << mounted, refreshRequests >>
    /\ UNCHANGED << handlerVars, model, deployments, discoveryError,
                    serviceVars >>

\* onChange of the API key field, which is shown when Azure Identity is off
HandleApiKeyChange(value) ==
    /\ mounted
    /\ ~TruthyBool(apiConfiguration, "azureIdentity")
    /\ apiConfiguration' = Spread(apiConfiguration, [openAiApiKey |-> value])
    /\ ChangeWith(FieldOf(apiConfiguration, "openAiBaseUrl"), Some(value))
    /\ UNCHANGED << mounted, refreshRequests >>
    /\ UNCHANGED << handlerVars, model, deployments, discoveryError,
                    serviceVars >>

\* onChange of the Azure Identity checkbox
HandleAzureIdentityChange(isChecked) ==
    /\ mounted
    /\ apiConfiguration' = Spread(apiConfiguration, [azureIdentity |-> isChecked])
    /\ UNCHANGED azureVars
    /\ UNCHANGED << handlerVars, model, deployments, discoveryError,
                    serviceVars >>

\* Time passes: d ms
Tick(d) ==
    /\ \/ \E t \in timers : t.remaining > 0
       \/ IsSome(lastChange) /\ Val(lastChange).elapsed < DEBOUNCE_MS
    /\ timers' = { [t EXCEPT !.remaining = IF t.remaining > d
                                           THEN t.remaining - d ELSE 0] :
                     t \in timers }
    /\ lastChange' =
          IF IsSome(lastChange)
          THEN Some([Val(lastChange) EXCEPT
                       !.elapsed = IF Val(lastChange).elapsed + d < DEBOUNCE_MS
                                   THEN Val(lastChange).elapsed + d
                                   ELSE DEBOUNCE_MS])
          ELSE None
    /\ UNCHANGED << mounted, debounceTimerRef, timersSet, refreshRequests >>
    /\ UNCHANGED << handlerVars, model, settingsVars, serviceVars >>

\* A timer is due and its callback runs: refreshOpenAiModels with the
\* arguments of the call that set it
TimerFires(t) ==
    /\ t \in timers
    /\ t.remaining = 0
    /\ Len(refreshRequests) < MaxRefreshes
    /\ timers' = timers \ {t}
    /\ refreshRequests' = Append(refreshRequests,
                                 [baseUrl |-> Val(t.baseUrl),
                                  apiKey |-> Val(t.apiKey),
                                  by |-> "timer"])
    /\ UNCHANGED << mounted, debounceTimerRef, timersSet, lastChange >>
    /\ UNCHANGED << handlerVars, model, settingsVars, serviceVars >>

\* The Auto-Discover Models button, enabled when the endpoint and either
\* the API key or Azure Identity is set
AutoDiscoverModels ==
    /\ mounted
    /\ TruthyStr(apiConfiguration, "openAiBaseUrl")
    /\ \/ TruthyStr(apiConfiguration, "openAiApiKey")
       \/ TruthyBool(apiConfiguration, "azureIdentity")
    /\ Len(refreshRequests) < MaxRefreshes
    /\ refreshRequests' =
          Append(refreshRequests,
                 [baseUrl |-> apiConfiguration.openAiBaseUrl,
                  apiKey |-> IF TruthyStr(apiConfiguration, "openAiApiKey")
                             THEN apiConfiguration.openAiApiKey
                             ELSE STR_EMPTY,
                  by |-> "button"])
    /\ UNCHANGED << mounted, debounceTimerRef, timers, timersSet, lastChange >>
    /\ UNCHANGED << handlerVars, model, settingsVars, serviceVars >>

\* The view unmounts: the cleanup of the effect clears the timer of the ref
Unmount ==
    /\ mounted
    /\ mounted' = FALSE
    /\ timers' = IF IsSome(debounceTimerRef)
                 THEN ClearTimeout(timers, Val(debounceTimerRef))
                 ELSE timers
    /\ UNCHANGED << debounceTimerRef, timersSet, refreshRequests, lastChange >>
    /\ UNCHANGED << handlerVars, model, settingsVars, serviceVars >>

\* apiConfiguration?.openAiHeaders ?? {}
HeadersOf(cfg) == IF Has(cfg, "openAiHeaders") THEN cfg.openAiHeaders
                  ELSE EmptyObject

\* The decimal digits of a natural number
DIGITS == << "0", "1", "2", "3", "4", "5", "6", "7", "8", "9" >>

RECURSIVE ToDecimal(_)
ToDecimal(n) ==
    IF n < 10 THEN << DIGITS[n + 1] >>
    ELSE ToDecimal(n \div 10) \o << DIGITS[(n % 10) + 1] >>

STR_HEADER == <<"h","e","a","d","e","r">>

\* The object without the property key
Without(o, key) == [k \in DOMAIN o \ {key} |-> o[k]]

\* The Add Header button: a header named "header" and the number of headers
\* plus one is set to the empty value
AddHeader ==
    /\ mounted
    /\ Cardinality(DOMAIN HeadersOf(apiConfiguration)) < MaxHeaders
    /\ LET currentHeaders == HeadersOf(apiConfiguration)
           headerCount == Cardinality(DOMAIN currentHeaders)
           newKey == STR_HEADER \o ToDecimal(headerCount + 1)
       IN  apiConfiguration' =
              Spread(apiConfiguration,
                     [openAiHeaders |->
                        Spread(currentHeaders,
                               [k \in {newKey} |-> STR_EMPTY])])
    /\ UNCHANGED azureVars
    /\ UNCHANGED << handlerVars, model, deployments, discoveryError,
                    serviceVars >>

\* onChange of the name field of the header key
EditHeaderName(key, newValue) ==
    /\ mounted
    /\ key \in DOMAIN HeadersOf(apiConfiguration)
    /\ LET currentHeaders == HeadersOf(apiConfiguration)
           value == currentHeaders[key]
       IN  apiConfiguration' =
              IF newValue # STR_EMPTY /\ newValue # key
              THEN Spread(apiConfiguration,
                          [openAiHeaders |->
                             Spread(Without(currentHeaders, key),
                                    [k \in {newValue} |-> value])])
              ELSE apiConfiguration
    /\ UNCHANGED azureVars
    /\ UNCHANGED << handlerVars, model, deployments, discoveryError,
                    serviceVars >>

\* onChange of the value field of the header key
EditHeaderValue(key, newValue) ==
    /\ mounted
    /\ key \in DOMAIN HeadersOf(apiConfiguration)
    /\ apiConfiguration' =
          Spread(apiConfiguration,
                 [openAiHeaders |->
                    Spread(HeadersOf(apiConfiguration),
                           [k \in {key} |-> newValue])])
    /\ UNCHANGED azureVars
    /\ UNCHANGED << handlerVars, model, deployments, discoveryError,
                    serviceVars >>

\* The Remove button of the header key
RemoveHeader(key) ==
    /\ mounted
    /\ key \in DOMAIN HeadersOf(apiConfiguration)
    /\ apiConfiguration' =
          Spread(apiConfiguration,
                 [openAiHeaders |-> Without(HeadersOf(apiConfiguration), key)])
    /\ UNCHANGED azureVars
    /\ UNCHANGED << handlerVars, model, deployments, discoveryError,
                    serviceVars >>

-----------------------------------------------------------------------------
(* The deployment service (getMicrosoftFoundryDeployments)                   *)

\* No call of the service was made
InitService ==
    /\ armPc = "idle"
    /\ deploymentsRequest = None
    /\ armLocals = EmptyObject
    /\ externalCalls = << >>
    /\ deploymentsResult = None

-----------------------------------------------------------------------------
(* Inputs *)

\* https://example.com
ENDPOINT_EXAMPLE ==
    << "h","t","t","p","s",":","/","/","e","x","a","m","p","l","e",".","c",
       "o","m" >>

\* https://x.openai.azure.com
ENDPOINT_COMMERCIAL ==
    << "h","t","t","p","s",":","/","/","x",".","o","p","e","n","a","i",".",
       "a","z","u","r","e",".","c","o","m" >>

\* https://x.openai.AZURE.us
ENDPOINT_GOVERNMENT ==
    << "h","t","t","p","s",":","/","/","x",".","o","p","e","n","a","i",".",
       "A","Z","U","R","E",".","u","s" >>

\* https://x.stack.local
ENDPOINT_STACK ==
    << "h","t","t","p","s",":","/","/","x",".","s","t","a","c","k",".","l",
       "o","c","a","l" >>

\* test-key
API_KEY == <<"t","e","s","t","-","k","e","y">>

\* https://x.stack.local/.default
CUSTOM_SCOPE ==
    << "h","t","t","p","s",":","/","/","x",".","s","t","a","c","k",".","l",
       "o","c","a","l","/",".","d","e","f","a","u","l","t" >>

\* o1
DEP_O1 == <<"o","1">>

\* o1-mini
DEP_O1_MINI == <<"o","1","-","m","i","n","i">>

\* O1-Preview
DEP_O1_PREVIEW == <<"O","1","-","P","r","e","v","i","e","w">>

\* o3-mini-2025
DEP_O3_MINI == <<"o","3","-","m","i","n","i","-","2","0","2","5">>

\* gpt-4o
DEP_GPT_4O == <<"g","p","t","-","4","o">>

\* gpt-5.2-chat
DEP_GPT_52_CHAT == <<"g","p","t","-","5",".","2","-","c","h","a","t">>

\* o1-chat
DEP_O1_CHAT == <<"o","1","-","c","h","a","t">>

\* demo1
DEP_DEMO1 == <<"d","e","m","o","1">>

\* my-GPT5-prod
DEP_GPT5_PROD == <<"m","y","-","G","P","T","5","-","p","r","o","d">>

\* my-model
DEP_MY_MODEL == <<"m","y","-","m","o","d","e","l">>

\* boom
ERR_BOOM == <<"b","o","o","m">>

\* 401 Unauthorized
ERR_401 ==
    << "4","0","1"," ","U","n","a","u","t","h","o","r","i","z","e","d" >>

\* Forbidden
ERR_FORBIDDEN == <<"F","o","r","b","i","d","d","e","n">>

\* Not Found
ERR_NOT_FOUND == <<"N","o","t"," ","F","o","u","n","d">>

\* DeploymentNotFound
ERR_DEPLOYMENT ==
    << "D","e","p","l","o","y","m","e","n","t","N","o","t","F","o","u","n",
       "d" >>

\* DeploymentNotFound (request 4010)
ERR_DEPLOYMENT_4010 ==
    << "D","e","p","l","o","y","m","e","n","t","N","o","t","F","o","u","n",
       "d"," ","(","r","e","q","u","e","s","t"," ","4","0","1","0",")" >>

\* Too Many Requests
ERR_TOO_MANY ==
    << "T","o","o"," ","M","a","n","y"," ","R","e","q","u","e","s","t","s" >>

\* getaddrinfo ENOTFOUND x
ERR_ENOTFOUND ==
    << "g","e","t","a","d","d","r","i","n","f","o"," ","E","N","O","T","F",
       "O","U","N","D"," ","x" >>

\* timeout after 4030 ms
ERR_TIMEOUT_4030 ==
    << "t","i","m","e","o","u","t"," ","a","f","t","e","r"," ","4","0","3",
       "0"," ","m","s" >>

\* {''p'':
ARG_A ==
    << "{","\"","p","\"",":" >>

\* ''a
ARG_B ==
    << "\"","a" >>

\* ''}
ARG_C ==
    << "\"","}" >>

\* {}
ARG_D == <<"{","}">>

\* call_1
CALL_1 == <<"c","a","l","l","_","1">>

\* call_2
CALL_2 == <<"c","a","l","l","_","2">>

\* read
TOOL_READ == <<"r","e","a","d">>

\* write
TOOL_WRITE == <<"w","r","i","t","e">>

\* gpt-4o-2024-08-06
NAME_GPT_4O_DATED ==
    << "g","p","t","-","4","o","-","2","0","2","4","-","0","8","-","0","6" >>

\* gpt-4o-mini-2024-07-18
NAME_GPT_4O_MINI_DATED ==
    << "g","p","t","-","4","o","-","m","i","n","i","-","2","0","2","4","-",
       "0","7","-","1","8" >>

\* gpt-4.1-2025-04-14
NAME_GPT_41_DATED ==
    << "g","p","t","-","4",".","1","-","2","0","2","5","-","0","4","-","1",
       "4" >>

\* gpt-4.1-mini-2025-04-14
NAME_GPT_41_MINI_DATED ==
    << "g","p","t","-","4",".","1","-","m","i","n","i","-","2","0","2","5",
       "-","0","4","-","1","4" >>

\* gpt-5.2-2025-12-11
NAME_GPT_52_DATED ==
    << "g","p","t","-","5",".","2","-","2","0","2","5","-","1","2","-","1",
       "1" >>

\* gpt-5-mini-2025-08-07
NAME_GPT_5_MINI_DATED ==
    << "g","p","t","-","5","-","m","i","n","i","-","2","0","2","5","-","0",
       "8","-","0","7" >>

\* o1-mini-2024-09-12
NAME_O1_MINI_DATED ==
    << "o","1","-","m","i","n","i","-","2","0","2","4","-","0","9","-","1",
       "2" >>

\* o1-pro-2025-03-19
NAME_O1_PRO_DATED ==
    << "o","1","-","p","r","o","-","2","0","2","5","-","0","3","-","1","9" >>

\* o4-mini-2025-04-16
NAME_O4_MINI_DATED ==
    << "o","4","-","m","i","n","i","-","2","0","2","5","-","0","4","-","1",
       "6" >>

\* grok-3-mini
NAME_GROK_3_MINI ==
    << "g","r","o","k","-","3","-","m","i","n","i" >>

\* Phi-4-mini-instruct
NAME_PHI_4_MINI_INSTRUCT ==
    << "P","h","i","-","4","-","m","i","n","i","-","i","n","s","t","r","u",
       "c","t" >>

\* GPT-4o
NAME_GPT_4O_UPPER ==
    << "G","P","T","-","4","o" >>

\* gpt
NAME_GPT ==
    << "g","p","t" >>

\* prod
DEP_PROD ==
    << "p","r","o","d" >>

\* The options of the handler tests: endpoint, API key and deployment
BASE_OPTIONS ==
    [microsoftFoundryEndpoint |-> ENDPOINT_EXAMPLE,
     microsoftFoundryApiKey |-> API_KEY,
     microsoftFoundryDeploymentId |-> DEP_GPT_4O]

\* The model infos of the two reasoning-effort tests
MODEL_INFO_REASONING ==
    [maxTokens |-> 100000, contextWindow |-> 200000, supportsImages |-> TRUE,
     supportsPromptCache |-> FALSE, supportsReasoning |-> TRUE,
     inputPrice |-> 0, outputPrice |-> 0]

MODEL_INFO_PLAIN ==
    [maxTokens |-> 8192, contextWindow |-> 128000, supportsImages |-> TRUE,
     supportsPromptCache |-> FALSE, supportsReasoning |-> FALSE,
     inputPrice |-> 0, outputPrice |-> 0]

Deployments ==
    { DEP_O1, DEP_O1_MINI, DEP_O1_PREVIEW, DEP_O3_MINI, DEP_GPT_4O, DEP_GPT_52_CHAT,
      DEP_O1_CHAT, DEP_DEMO1, DEP_GPT5_PROD, DEP_MY_MODEL }

\* Options that differ in what request shaping reads
ShapeOptions ==
    { Spread(Spread(Spread(BASE_OPTIONS,
                           [microsoftFoundryDeploymentId |-> d]), mi), re) :
        d \in Deployments,
        mi \in { EmptyObject,
                 [microsoftFoundryModelInfo |-> MODEL_INFO_REASONING],
                 [microsoftFoundryModelInfo |-> MODEL_INFO_PLAIN] },
        re \in { EmptyObject, [reasoningEffort |-> ""],
                 [reasoningEffort |-> "low"], [reasoningEffort |-> "high"] } }

\* Options that differ in what client provisioning and the error messages
\* read
ClientOptions ==
    { BASE_OPTIONS,
      [microsoftFoundryDeploymentId |-> DEP_GPT_4O],
      [microsoftFoundryEndpoint |-> STR_EMPTY,
       microsoftFoundryUseIdentity |-> FALSE,
       microsoftFoundryApiKey |-> STR_EMPTY],
      [microsoftFoundryApiKey |-> API_KEY,
       microsoftFoundryDeploymentId |-> DEP_GPT_4O],
      [microsoftFoundryEndpoint |-> ENDPOINT_EXAMPLE,
       microsoftFoundryDeploymentId |-> DEP_GPT_4O],
      [microsoftFoundryEndpoint |-> ENDPOINT_EXAMPLE,
       microsoftFoundryApiKey |-> API_KEY],
      [microsoftFoundryEndpoint |-> ENDPOINT_COMMERCIAL,
       microsoftFoundryUseIdentity |-> TRUE,
       microsoftFoundryDeploymentId |-> DEP_GPT_4O],
      [microsoftFoundryEndpoint |-> ENDPOINT_STACK,
       microsoftFoundryUseIdentity |-> TRUE,
       microsoftFoundryCloudEnvironment |-> "stack",
       microsoftFoundryDeploymentId |-> DEP_O1],
      [microsoftFoundryEndpoint |-> ENDPOINT_STACK,
       microsoftFoundryUseIdentity |-> TRUE,
       microsoftFoundryCloudEnvironment |-> "stack",
       microsoftFoundryCustomScope |-> CUSTOM_SCOPE,
       microsoftFoundryDeploymentId |-> DEP_GPT_4O] }

\* Options of identity-based authentication that differ in what the
\* audience scope is resolved from
ScopeOptions ==
    { Spread(Spread([microsoftFoundryEndpoint |-> e,
                     microsoftFoundryUseIdentity |-> TRUE,
                     microsoftFoundryDeploymentId |-> DEP_GPT_4O], env), cs) :
        e \in { ENDPOINT_EXAMPLE, ENDPOINT_COMMERCIAL, ENDPOINT_GOVERNMENT,
                ENDPOINT_STACK },
        env \in { EmptyObject,
                  [microsoftFoundryCloudEnvironment |-> "commercial"],
                  [microsoftFoundryCloudEnvironment |-> "government"],
                  [microsoftFoundryCloudEnvironment |-> "stack"] },
        cs \in { EmptyObject,
                 [microsoftFoundryCustomScope |-> STR_EMPTY],
                 [microsoftFoundryCustomScope |-> CUSTOM_SCOPE] } }

USER_MESSAGE == [role |-> "user", content |-> "hi"]
TOOL_SCHEMA == [name |-> "read_file"]

CallArgs ==
    { [systemPrompt |-> "sys", messages |-> m, tools |-> t] :
        m \in { << >>, << USER_MESSAGE >> },
        t \in { None, Some(<< TOOL_SCHEMA >>) } }

OneCall == { [systemPrompt |-> "sys", messages |-> << >>, tools |-> None] }

\* Raw errors of the provider client: a message and optionally a status
ErrorMessages ==
    { ERR_BOOM, ERR_401, ERR_FORBIDDEN, ERR_NOT_FOUND, ERR_DEPLOYMENT,
      ERR_DEPLOYMENT_4010, ERR_TOO_MANY, ERR_ENOTFOUND, ERR_TIMEOUT_4030 }

RawErrors ==
    { NewError(m) : m \in ErrorMessages }
      \cup { [message |-> m, status |-> s] :
               m \in ErrorMessages, s \in {401, 403, 404, 429, 500} }

FewErrors ==
    { [message |-> ERR_TOO_MANY, status |-> 429], NewError(ERR_BOOM) }

\* Chunks of a provider stream
TextChunk(s) == [kind |-> "object", choices |-> << [delta |-> [content |-> s]] >>]

ToolChunk(frags) ==
    [kind |-> "object", choices |-> << [delta |-> [tool_calls |-> frags]] >>]

UsageChunk(p, c) ==
    [kind |-> "object", choices |-> << >>,
     usage |-> [prompt_tokens |-> p, completion_tokens |-> c]]

NULL_CHUNK == [kind |-> "null"]

MalformedChunks ==
    { NULL_CHUNK,
      [kind |-> "primitive"],
      [kind |-> "object"],
      [kind |-> "object", choices |-> << >>],
      [kind |-> "object", choices |-> << EmptyObject >>] }

StreamChunks ==
    MalformedChunks
      \cup { TextChunk("a"), TextChunk(""),
             [kind |-> "object",
              choices |-> << [delta |-> [content |-> "b",
                                         reasoning_content |-> "r"]] >>,
              usage |-> [prompt_tokens |-> 5, completion_tokens |-> 1,
                         prompt_tokens_details |-> [cached_tokens |-> 2]]],
             UsageChunk(7, 3),
             ToolChunk(<< [index |-> 0, id |-> CALL_1, name |-> TOOL_READ,
                           arguments |-> ARG_A] >>),
             ToolChunk(<< [index |-> 0, arguments |-> ARG_B] >>),
             ToolChunk(<< [index |-> 0, arguments |-> ARG_C] >>),
             ToolChunk(<< [index |-> 1, id |-> CALL_2, name |-> TOOL_WRITE,
                           arguments |-> ARG_D] >>) }

FewChunks == { TextChunk("a"), UsageChunk(7, 3) }

\* Model names: every key of the table, dated and suffixed variants of keys,
\* names that match no key, and the empty name
TableKeys ==
    { FOUNDRY_MODEL_CAPABILITIES[i][1] : i \in DOMAIN FOUNDRY_MODEL_CAPABILITIES }

ModelNames ==
    TableKeys
      \cup { NAME_GPT_4O_DATED, NAME_GPT_4O_MINI_DATED, NAME_GPT_41_DATED,
             NAME_GPT_41_MINI_DATED, NAME_GPT_52_DATED, NAME_GPT_5_MINI_DATED,
             NAME_O1_MINI_DATED, NAME_O1_PRO_DATED, NAME_O4_MINI_DATED,
             DEP_O3_MINI, NAME_GROK_3_MINI, NAME_PHI_4_MINI_INSTRUCT,
             NAME_GPT_4O_UPPER, NAME_GPT, DEP_O1_PREVIEW, DEP_MY_MODEL,
             STR_EMPTY }

\* Handlers configured with a deployment named after its model, with and
\* without a stored model info
ResolveOptions ==
    { Spread(Spread(BASE_OPTIONS, [microsoftFoundryDeploymentId |-> n]), mi) :
        n \in ModelNames,
        mi \in { EmptyObject,
                 [microsoftFoundryModelInfo |-> MODEL_INFO_PLAIN] } }

\* Stored configurations the settings view is mounted over
SettingsConfigurations ==
    { EmptyObject,
      [microsoftFoundryEndpoint |-> ENDPOINT_COMMERCIAL],
      [microsoftFoundryEndpoint |-> ENDPOINT_STACK,
       microsoftFoundryCloudEnvironment |-> "stack"] }

\* Outcomes of the deployment service for a resource that has a deployment
\* of model n
ResponsesFor(n) ==
    { [rejected |-> "Failed to discover deployments"],
      [error |-> "Azure CLI is not logged in"],
      EmptyObject,
      [deployments |-> << >>],
      [deployments |-> << [id |-> DEP_PROD, model |-> n] >>],
      [deployments |-> << [id |-> n], [model |-> DEP_GPT_4O] >>] }

-----------------------------------------------------------------------------
(* Specifications *)

\* One handler with the test options; the provider delivers any stream
Init == InitHandler(BASE_OPTIONS) /\ InitOther /\ InitSettings(EmptyObject)
      /\ InitAzure /\ InitService

Next ==
    \/ \E a \in OneCall : CallCreateMessage(a)
    \/ StartAttempt(None)
    \/ ProviderCreated
    \/ \E e \in FewErrors : ProviderCreateFailed(e)
    \/ \E c \in StreamChunks : PullChunk(c)
    \/ YieldEvent
    \/ StreamEnd
    \/ ConsumerReturn
    \/ \E e \in FewErrors : StreamFailed(e)

Spec == Init /\ [][Next]_vars

\* Handlers over all shaping options; any call arguments
InitShape ==
    /\ \E o \in ShapeOptions : InitHandler(o)
    /\ InitOther
    /\ InitSettings(EmptyObject)
    /\ InitAzure
    /\ InitService

NextShape ==
    \/ \E a \in CallArgs : CallCreateMessage(a)
    \/ StartAttempt(None)
    \/ ProviderCreated
    \/ \E e \in FewErrors : ProviderCreateFailed(e)
    \/ \E c \in FewChunks : PullChunk(c)
    \/ YieldEvent
    \/ StreamEnd
    \/ ConsumerReturn
    \/ \E e \in FewErrors : StreamFailed(e)

SpecShape == InitShape /\ [][NextShape]_vars

\* Handlers over the provisioning options; any raw error from the client
\* constructor, the provider call and the stream
InitErrors ==
    /\ \E o \in ClientOptions : InitHandler(o)
    /\ InitOther
    /\ InitSettings(EmptyObject)
    /\ InitAzure
    /\ InitService

NextErrors ==
    \/ \E a \in OneCall : CallCreateMessage(a)
    \/ \E k \in {None} \cup {Some(e) : e \in FewErrors} : StartAttempt(k)
    \/ ProviderCreated
    \/ \E e \in RawErrors : ProviderCreateFailed(e)
    \/ \E c \in FewChunks \cup {NULL_CHUNK} : PullChunk(c)
    \/ YieldEvent
    \/ StreamEnd
    \/ ConsumerReturn
    \/ \E e \in RawErrors : StreamFailed(e)

SpecErrors == InitErrors /\ [][NextErrors]_vars

\* Handlers with identity-based authentication over the scope options
InitScope ==
    /\ \E o \in ScopeOptions : InitHandler(o)
    /\ InitOther
    /\ InitSettings(EmptyObject)
    /\ InitAzure
    /\ InitService

NextScope ==
    \/ \E a \in OneCall : CallCreateMessage(a)
    \/ \E k \in {None} \cup {Some(e) : e \in FewErrors} : StartAttempt(k)
    \/ ProviderCreated
    \/ \E e \in FewErrors : ProviderCreateFailed(e)
    \/ \E c \in FewChunks : PullChunk(c)
    \/ YieldEvent
    \/ StreamEnd
    \/ ConsumerReturn
    \/ \E e \in FewErrors : StreamFailed(e)

SpecScope == InitScope /\ [][NextScope]_vars

\* Handlers and settings views over all model names: getModel and the
\* deployment selection resolve the capabilities of a name
InitResolve ==
    /\ \E o \in ResolveOptions : InitHandler(o)
    /\ InitOther
    /\ \E cfg \in SettingsConfigurations : InitSettings(cfg)
    /\ InitAzure
    /\ InitService

NextResolve ==
    \/ GetModel
    \/ \E r \in ResponsesFor(options.microsoftFoundryDeploymentId) :
           DiscoverDeployments(r)
    \/ \E mode \in {"plan", "act"} : \E d \in DropdownValues :
           HandleDeploymentChange(mode, d)

SpecResolve == InitResolve /\ [][NextResolve]_vars

-----------------------------------------------------------------------------
(* Properties *)

\* C1: for every deployment that createMessage classifies as reasoning-class
\* the request handed to the provider carries the system prompt as its first
\* message under role "developer" and has a reasoning_effort field; for
\* every other deployment the first message has role "system" and the
\* request has no reasoning_effort field, whatever hint is configured.
C1_ReasoningShaping ==
    IsSome(request) =>
        LET r == Val(request)
        IN  /\ r.messages[1].content = args.systemPrompt
            /\ IF isReasoningModel(options, options.microsoftFoundryDeploymentId)
               THEN /\ r.messages[1].role = "developer"
                    /\ Has(r, "reasoning_effort")
               ELSE /\ r.messages[1].role = "system"
                    /\ ~Has(r, "reasoning_effort")

\* A request was sent for a deployment that is reasoning-class by its name
\* only, with an empty hint configured
C1_Witness ==
    /\ IsSome(request)
    /\ ~Has(options, "microsoftFoundryModelInfo")
    /\ options.microsoftFoundryDeploymentId = DEP_O1_PREVIEW
    /\ Has(options, "reasoningEffort")
    /\ options.reasoningEffort = ""
    /\ Val(request).reasoning_effort = "medium"

\* The tool-call fragments of the chunks pulled in this attempt, in arrival
\* order
RECURSIVE FragmentsOf(_)
FragmentsOf(chunks) ==
    IF chunks = << >> THEN << >>
    ELSE (IF IsSome(DeltaOf(Head(chunks)))
             /\ Has(Val(DeltaOf(Head(chunks))), "tool_calls")
          THEN Val(DeltaOf(Head(chunks))).tool_calls ELSE << >>)
           \o FragmentsOf(Tail(chunks))

\* The concatenation of the argument fragments of one index
RECURSIVE ArgumentsOf(_, _)
ArgumentsOf(frags, index) ==
    IF frags = << >> THEN STR_EMPTY
    ELSE (IF Head(frags).index = index /\ Has(Head(frags), "arguments")
          THEN Head(frags).arguments ELSE STR_EMPTY)
           \o ArgumentsOf(Tail(frags), index)

\* The positions in delivered of the ToolCallComplete events of one index
CompletesOf(index) ==
    { i \in DOMAIN delivered :
        /\ delivered[i].event.type = "tool_call_complete"
        /\ delivered[i].event.index = index }

\* The provider keeps to the protocol: the fragments of one index are not
\* interrupted by those of another index
Contiguous(frags) ==
    \A i, j, k \in DOMAIN frags :
        (i < j /\ j < k /\ frags[i].index = frags[k].index)
           => frags[j].index = frags[i].index

\* C2: in one request, every tool-call index whose fragments arrived gets
\* exactly one ToolCallComplete event, never two, and at the latest when the
\* stream has ended; its arguments are the concatenation of the index's
\* argument fragments in arrival order.
C2_ExactlyOneComplete ==
    LET frags == FragmentsOf(chunksSeen)
    IN  Contiguous(frags) => \A k \in DOMAIN frags :
          LET index == frags[k].index
          IN  /\ Cardinality(CompletesOf(index)) <= 1
              /\ pc = "done" =>
                    /\ Cardinality(CompletesOf(index)) = 1
                    /\ \A i \in CompletesOf(index) :
                          delivered[i].event.arguments
                             = ArgumentsOf(frags, index)

\* C3: at most one usage event is delivered in one request, whatever number
\* of chunks carry a usage block.
C3_AtMostOneUsage ==
    Cardinality({ i \in DOMAIN delivered :
                    delivered[i].event.type = "usage" }) <= 1

\* The place of an event type in the order of one loop body
KindRank(type) ==
    CASE type = "text" -> 1
      [] type = "reasoning" -> 2
      [] type = "tool_call_complete" -> 3
      [] type = "usage" -> 4

\* The delivered events are in chunk-arrival order and, within one chunk, in
\* the order text, reasoning, tool-call output, usage; each event carries
\* what its chunk carries.
InArrivalOrder(events) ==
    /\ \A i, j \in DOMAIN events :
          i < j =>
             \/ events[i].attempt < events[j].attempt
             \/ /\ events[i].attempt = events[j].attempt
                /\ events[i].chunk < events[j].chunk
             \/ /\ events[i].attempt = events[j].attempt
                /\ events[i].chunk = events[j].chunk
                /\ KindRank(events[i].event.type)
                      <= KindRank(events[j].event.type)
    /\ \A i \in DOMAIN events :
          /\ events[i].attempt = attempt
          /\ events[i].chunk \in DOMAIN chunksSeen
          /\ LET chunk == chunksSeen[events[i].chunk]
                 event == events[i].event
             IN  /\ event.type = "text" =>
                       event.text = chunk.choices[1].delta.content
                 /\ event.type = "reasoning" =>
                       event.reasoning
                          = chunk.choices[1].delta.reasoning_content
                 /\ event.type = "tool_call_complete" =>
                       Has(chunk.choices[1].delta, "tool_calls")
                 /\ event.type = "usage" =>
                       event.inputTokens = chunk.usage.prompt_tokens

\* C4: the events createMessage delivers are those of the provider chunks in
\* chunk-arrival order (within one chunk: text, reasoning, tool-call output,
\* usage), and once the stream has closed or an error was raised to the
\* caller the call delivers no further event.
C4_OrderedAndFinal ==
    [][ /\ InArrivalOrder(delivered')
        /\ (pc \in {"done", "failed"} /\ calls' = calls)
              => delivered' = delivered ]_vars

\* A call has ended after delivering the text, the reasoning and the usage
\* of one chunk and then an event of a later chunk
C4_Witness ==
    /\ pc = "done"
    /\ Len(delivered) >= 4
    /\ delivered[1].event.type = "text"
    /\ delivered[2].event.type = "reasoning"
    /\ delivered[3].event.type = "usage"
    /\ delivered[4].chunk > delivered[3].chunk

\* A chunk of unrecognized shape: it has no choices[0].delta (and no usage
\* block either)
IsMalformed(chunk) == IsNone(DeltaOf(chunk)) /\ ~Has(chunk, "usage")

\* C5: a chunk of unrecognized or malformed shape (missing choices, empty
\* choices, missing delta, or no object at all) raises no error and yields
\* no event, and the chunks after it are still processed.
C5_MalformedSkipped ==
    \A n \in DOMAIN chunksSeen :
        IsMalformed(chunksSeen[n]) =>
            /\ ~ \E i \in DOMAIN delivered : delivered[i].chunk = n
            /\ ~ (/\ pc = "failed"
                  /\ n = Len(chunksSeen)
                  /\ caught = Some(TypeErrorOfNull))

\* C6: when the provider call fails with a rate-limit error (status 429)
\* before anything was delivered, the call is tried again: it does not end
\* in failure before a third provider call was made and two backoff delays
\* were slept.
C6_RateLimitRetried ==
    (/\ pc = "failed"
     /\ IsSome(caught)
     /\ StatusCodeOf(Val(caught)) = 429
     /\ delivered = << >>
     /\ chunksSeen = << >>)
        => (providerCalls >= 3 /\ backoffs >= 2)

CarriesClass(err) ==
    \/ Has(err, "kind")
    \/ Has(err, "retryable")
    \/ Has(err, "status")
    \/ Has(err, "statusCode")

\* C8: an attempt is retried only for a RateLimited or Network failure and
\* at most MaxRetries times, every other failure ends the call after one
\* attempt, and the error that reaches the retry wrapper carries what tells
\* the two groups apart.
C8_RetryableOnly ==
    /\ attempt <= MaxRetries
    /\ backoffs = attempt
    /\ (pc = "failed" /\ IsSome(caught)) =>
          /\ CarriesClass(Val(surfaced))
          /\ attempt > 0 =>
                Val(surfaced).message \in {MSG_RATE_LIMIT, MSG_NETWORK}

\* The texts getDetailedErrorMessage returns
IsClassifierMessage(opts, m) ==
    \/ m \in { MSG_AUTH_IDENTITY, MSG_AUTH_KEY, MSG_FORBIDDEN, MSG_NOT_FOUND,
               MSG_RATE_LIMIT, MSG_NETWORK, DeploymentNotFoundMessage(opts) }
    \/ StartsWith(m, MSG_DEFAULT_HEAD)

\* C9: a failure of the provider call, of the stream iteration or of the
\* client construction reaches the caller as an error whose message the
\* error classifier produced; the raw exception is never rethrown.
C9_AlwaysClassified ==
    (pc = "failed" /\ IsSome(caught)) =>
        /\ IsSome(surfaced)
        /\ IsClassifierMessage(options, Val(surfaced).message)
        /\ Val(surfaced) # Val(caught)
        /\ Val(surfaced).message # Val(caught).message

\* The construction of the client raised an exception and the call ended
\* with the classifier's message for it
C9_Witness ==
    /\ pc = "failed"
    /\ providerCalls = 0
    /\ IsSome(caught)
    /\ Val(caught).message = ERR_TOO_MANY
    /\ Val(surfaced).message = MSG_RATE_LIMIT

\* C10: the class of a raw error that carries status 401, 403, 404 or 429 is
\* decided by that status, whatever its message contains.
C10_StatusDecides ==
    (pc = "failed" /\ IsSome(caught)) =>
        LET status == StatusCodeOf(Val(caught))
            m == Val(surfaced).message
        IN  /\ status = 401 => m \in {MSG_AUTH_IDENTITY, MSG_AUTH_KEY}
            /\ status = 403 => m = MSG_FORBIDDEN
            /\ status = 404 =>
                  m \in {MSG_NOT_FOUND, DeploymentNotFoundMessage(options)}
            /\ status = 429 => m = MSG_RATE_LIMIT

\* C11: a raw error with status 404 whose message mentions a deployment
\* reaches the caller with the deployment-specific message that names the
\* configured deployment identifier, and a raw error with status 404 whose
\* message mentions no deployment reaches the caller with the generic
\* resource-not-found message.
C11_DeploymentNotFound ==
    ( /\ pc = "failed"
      /\ IsSome(caught)
      /\ StatusCodeOf(Val(caught)) = 404
      /\ TruthyStr(options, "microsoftFoundryDeploymentId") ) =>
        LET m == Val(surfaced).message
        IN  IF HasDeploymentHint(Val(caught).message)
            THEN /\ m = DeploymentNotFoundMessage(options)
                 /\ Includes(m, options.microsoftFoundryDeploymentId)
            ELSE m = MSG_NOT_FOUND

\* The entries of a capability table whose key is name, and those whose key
\* is a string prefix of name
EntriesWithKey(table, name) ==
    { i \in DOMAIN table : table[i][1] = name }

EntriesWithPrefix(table, name) ==
    { i \in DOMAIN table :
        /\ Len(table[i][1]) <= Len(name)
        /\ \A k \in 1 .. Len(table[i][1]) : table[i][1][k] = name[k] }

\* info is a complete record and is what the resolver contract gives for
\* name: the entry of the key name merged over the default record, else the
\* entry of a key that is a prefix of name merged over the default record,
\* else the default record
ResolvedFrom(table, default, name, info) ==
    /\ DOMAIN default \subseteq DOMAIN info
    /\ IF EntriesWithKey(table, name) # {}
       THEN \E i \in EntriesWithKey(table, name) :
                info = Spread(default, table[i][2])
       ELSE IF EntriesWithPrefix(table, name) # {}
       THEN \E i \in EntriesWithPrefix(table, name) :
                info = Spread(default, table[i][2])
       ELSE info = default

\* The model info the settings view stored for a mode, <<>> when none is
StoredModelInfo(cfg, mode) ==
    IF mode = "plan"
    THEN IF Has(cfg, "planModeMicrosoftFoundryModelInfo")
         THEN Some(cfg.planModeMicrosoftFoundryModelInfo) ELSE None
    ELSE IF Has(cfg, "actModeMicrosoftFoundryModelInfo")
         THEN Some(cfg.actModeMicrosoftFoundryModelInfo) ELSE None

\* C12: getModelCapabilities is total and returns a complete capability
\* record: the result of getModel for a handler with no stored model info,
\* and the model info the settings view stores when a discovered deployment
\* is selected, is the table entry of the name merged over the default
\* record when the name is a key, the entry of a key that is a prefix of the
\* name merged over the default record when it is not, and the default
\* record when no key matches.
C12_ResolverTotal ==
    /\ [][ GetModel =>
             /\ IsSome(model')
             /\ ~Has(options, "microsoftFoundryModelInfo") =>
                   ResolvedFrom(FOUNDRY_MODEL_CAPABILITIES, DEFAULT_MODEL_INFO,
                                Val(model').id, Val(model').info) ]_vars
    /\ [][ \A mode \in {"plan", "act"} : \A d \in DropdownValues :
             ( HandleDeploymentChange(mode, d) /\ IsSome(FindDeployment(d)) ) =>
                 /\ IsSome(StoredModelInfo(apiConfiguration', mode))
                 /\ ResolvedFrom(MODEL_CAPABILITIES,
                                 SETTINGS_DEFAULT_MODEL_INFO,
                                 Val(FindDeployment(d)).model,
                                 Val(StoredModelInfo(apiConfiguration', mode))) ]_vars

\* getModel resolved a dated variant of "gpt-4o" by prefix, and the settings
\* view stored the record of a key for the selected deployment
C12_Witness ==
    /\ IsSome(model)
    /\ Val(model).id = NAME_GPT_4O_DATED
    /\ Val(model).info = Spread(DEFAULT_MODEL_INFO, Val(TableLookup(DEP_GPT_4O)))
    /\ Has(apiConfiguration, "actModeMicrosoftFoundryDeploymentId")
    /\ apiConfiguration.actModeMicrosoftFoundryDeploymentId = DEP_PROD
    /\ apiConfiguration.actModeMicrosoftFoundryModelInfo.maxTokens = 16384

\* The entry of the longest key of the table that is a prefix of name
LongestPrefixEntry(table, name) ==
    CHOOSE i \in EntriesWithPrefix(table, name) :
        \A j \in EntriesWithPrefix(table, name) :
            Len(table[j][1]) <= Len(table[i][1])

\* info is the record of the longest key that is a prefix of name, for a
\* name that is not a key and has a key as prefix
ResolvedFromLongest(table, default, name, info) ==
    ( /\ EntriesWithKey(table, name) = {}
      /\ EntriesWithPrefix(table, name) # {} ) =>
        info = Spread(default, table[LongestPrefixEntry(table, name)][2])

\* C13: for a model name that is not a table key, getModelCapabilities
\* returns the record of the longest table key that is a prefix of the name,
\* in the handler (getModel with no stored model info) and in the settings
\* view (selection of a discovered deployment).
C13_LongestPrefix ==
    /\ [][ ( GetModel /\ ~Has(options, "microsoftFoundryModelInfo") ) =>
             ResolvedFromLongest(FOUNDRY_MODEL_CAPABILITIES,
                                 DEFAULT_MODEL_INFO,
                                 Val(model').id, Val(model').info) ]_vars
    /\ [][ \A mode \in {"plan", "act"} : \A d \in DropdownValues :
             ( HandleDeploymentChange(mode, d) /\ IsSome(FindDeployment(d)) ) =>
                 ResolvedFromLongest(MODEL_CAPABILITIES,
                                     SETTINGS_DEFAULT_MODEL_INFO,
                                     Val(FindDeployment(d)).model,
                                     Val(StoredModelInfo(apiConfiguration', mode))) ]_vars

\* The identifier, compared in lower case as createMessage does, belongs to
\* the fixed-temperature family
FixedTemperatureFamily(deploymentId) ==
    \E i \in 1 .. Len(deploymentId) :
        \/ /\ i + 4 <= Len(deploymentId)
           /\ ToLowerCase(SubSeq(deploymentId, i, i + 4)) = <<"g","p","t","-","5">>
        \/ /\ i + 3 <= Len(deploymentId)
           /\ ToLowerCase(SubSeq(deploymentId, i, i + 3)) = <<"g","p","t","5">>

\* C14: the request sent for a deployment that is reasoning-class or of the
\* fixed-temperature family carries no temperature, and the request sent
\* for every other deployment carries the temperature 0.7.
C14_TemperatureShaping ==
    IsSome(request) =>
        LET d == options.microsoftFoundryDeploymentId
            r == Val(request)
        IN  IF isReasoningModel(options, d) \/ FixedTemperatureFamily(d)
            THEN ~Has(r, "temperature")
            ELSE /\ Has(r, "temperature")
                 /\ r.temperature = DEFAULT_TEMPERATURE

\* A request was sent without temperature for a deployment that is of the
\* fixed-temperature family and not reasoning-class
C14_Witness ==
    /\ IsSome(request)
    /\ options.microsoftFoundryDeploymentId = DEP_GPT5_PROD
    /\ ~isReasoningModel(options, DEP_GPT5_PROD)
    /\ Has(options, "reasoningEffort")
    /\ ~Has(Val(request), "temperature")
    /\ ~Has(Val(request), "reasoning_effort")

\* C15: the request sent for a reasoning-class deployment carries no
\* temperature and a reasoning_effort that is the configured hint when one
\* is configured and "medium" when none is (an absent or empty hint).
C15_ReasoningEffortValue ==
    ( /\ IsSome(request)
      /\ isReasoningModel(options, options.microsoftFoundryDeploymentId) ) =>
        LET r == Val(request)
        IN  /\ Has(r, "reasoning_effort")
            /\ r.reasoning_effort =
                  IF Has(options, "reasoningEffort") /\ options.reasoningEffort # ""
                  THEN options.reasoningEffort
                  ELSE "medium"
            /\ ~Has(r, "temperature")

\* The request of the scenario: deployment "o1-mini", a stored model info
\* with supportsReasoning true, hint "low"
C15_Witness ==
    /\ IsSome(request)
    /\ options.microsoftFoundryDeploymentId = DEP_O1_MINI
    /\ Has(options, "microsoftFoundryModelInfo")
    /\ options.microsoftFoundryModelInfo.supportsReasoning = TRUE
    /\ Has(options, "reasoningEffort")
    /\ options.reasoningEffort = "low"
    /\ Val(request).reasoning_effort = "low"
    /\ ~Has(Val(request), "temperature")

\* The identifier, in lower case, begins with a reasoning-family prefix and
\* does not contain "chat"
ReasoningFamilyName(deploymentId) ==
    /\ \E prefix \in { <<"o","1">>, <<"o","3">>, <<"o","4">> } :
          StartsWith(ToLowerCase(deploymentId), prefix)
    /\ ~Includes(ToLowerCase(deploymentId), <<"c","h","a","t">>)

\* C16: a deployment is shaped as reasoning-class (role "developer", a
\* reasoning_effort, no temperature) exactly when its capability record
\* declares reasoning support or its identifier begins with o1, o3 or o4 and
\* is no "chat" variant; every other deployment is shaped as non-reasoning
\* (role "system", no reasoning_effort, the default temperature unless it is
\* of the fixed-temperature family).
C16_ReasoningClass ==
    IsSome(request) =>
        LET d == options.microsoftFoundryDeploymentId
            r == Val(request)
            declared == TruthyBool(ModelInfoOf(options, d), "supportsReasoning")
        IN  IF declared \/ ReasoningFamilyName(d)
            THEN /\ r.messages[1].role = "developer"
                 /\ Has(r, "reasoning_effort")
                 /\ ~Has(r, "temperature")
            ELSE /\ r.messages[1].role = "system"
                 /\ ~Has(r, "reasoning_effort")
                 /\ Has(r, "temperature") <=> ~FixedTemperatureFamily(d)

\* C17: over any sequence of createMessage calls on one handler at most one
\* provider client is constructed, and once this.client holds a client every
\* later ensureClient leaves that same instance in place.
C17_ClientBuiltOnce ==
    /\ [](clientsBuilt <= 1)
    /\ [][ IsSome(client) => client' = client ]_vars

\* The second createMessage call sent its provider request with the client
\* the first call constructed
C17_Witness ==
    /\ calls = 2
    /\ pc = "creating"
    /\ providerCalls = 1
    /\ clientsBuilt = 1
    /\ IsSome(client)
    /\ Val(client).instance = 1

\* The configuration names an endpoint; it selects an API key or
\* identity-based authentication
EndpointConfigured(opts) ==
    Has(opts, "microsoftFoundryEndpoint") /\ opts.microsoftFoundryEndpoint # << >>

AuthConfigured(opts) ==
    \/ Has(opts, "microsoftFoundryApiKey") /\ opts.microsoftFoundryApiKey # << >>
    \/ Has(opts, "microsoftFoundryUseIdentity") /\ opts.microsoftFoundryUseIdentity

\* The step is a createMessage attempt in which ensureClient threw
EnsureClientFailed ==
    /\ pc = "start"
    /\ pc' = "failed"
    /\ Val(surfaced').message # MSG_NO_DEPLOYMENT

\* C18: with no client cached, ensureClient fails with the endpoint
\* configuration error when the endpoint is absent, and with the
\* authentication configuration error when the endpoint is present and
\* neither an API key nor identity-based authentication is selected; an
\* ensureClient that failed leaves this.client as it was, so that the next
\* call validates again and constructs when the configuration is valid.
C18_ConfigurationErrors ==
    /\ [][ ( pc = "start" /\ pc' # "start" /\ IsNone(client) ) =>
             IF ~EndpointConfigured(options)
             THEN /\ EnsureClientFailed
                  /\ Val(surfaced').message = MSG_ENDPOINT_REQUIRED
             ELSE IF ~AuthConfigured(options)
             THEN /\ EnsureClientFailed
                  /\ Val(surfaced').message = MSG_AUTH_REQUIRED
             ELSE \/ IsSome(client') /\ clientsBuilt' = clientsBuilt + 1
                  \/ EnsureClientFailed /\ IsSome(caught') ]_vars
    /\ [][ EnsureClientFailed =>
             /\ IsNone(client)
             /\ client' = client
             /\ clientsBuilt' = clientsBuilt
             /\ providerCalls' = 0 ]_vars

\* A second call on a handler with an endpoint and no authentication failed
\* again with the authentication configuration error, no client cached
C18_Witness ==
    /\ calls = 2
    /\ pc = "failed"
    /\ EndpointConfigured(options)
    /\ IsSome(surfaced)
    /\ Val(surfaced).message = MSG_AUTH_REQUIRED
    /\ IsNone(client)
    /\ clientsBuilt = 0

\* Identity-based authentication, environment "stack", no custom scope
StackWithoutScope(opts) ==
    /\ Has(opts, "microsoftFoundryUseIdentity")
    /\ opts.microsoftFoundryUseIdentity
    /\ Has(opts, "microsoftFoundryCloudEnvironment")
    /\ opts.microsoftFoundryCloudEnvironment = "stack"
    /\ \/ ~Has(opts, "microsoftFoundryCustomScope")
       \/ opts.microsoftFoundryCustomScope = << >>

\* The attempt ended with the error of the missing custom scope, passed
\* through the error classifier, and no client was constructed
FailedForMissingScope ==
    /\ pc = "failed"
    /\ IsNone(client)
    /\ caught = Some(NewError(MSG_STACK_SCOPE))
    /\ Val(surfaced).message = MSG_DEFAULT_HEAD \o MSG_STACK_SCOPE

\* The endpoint, compared in lower case, names a known cloud
EndpointNamesCloud(opts, suffix) ==
    \E i \in 1 .. Len(opts.microsoftFoundryEndpoint) :
        /\ i + Len(suffix) - 1 <= Len(opts.microsoftFoundryEndpoint)
        /\ ToLowerCase(SubSeq(opts.microsoftFoundryEndpoint, i,
                              i + Len(suffix) - 1)) = suffix

\* C19: with identity-based authentication, environment "stack" and no
\* custom scope the resolution of the audience scope fails for every
\* endpoint: no client is ever constructed with a default scope, and every
\* attempt ends with the error of the missing custom scope.
C19_StackAlwaysFails ==
    StackWithoutScope(options) =>
        /\ IsNone(client)
        /\ pc \in {"idle", "start", "failed"}
        /\ pc = "failed" => FailedForMissingScope

\* C19 as amended: in that configuration the resolution fails for every
\* endpoint that names neither azure.us nor azure.com; an endpoint that
\* names azure.us resolves to the government scope and one that names
\* azure.com to the commercial scope.
C19_StackFailsOffCloud ==
    StackWithoutScope(options) =>
        IF EndpointNamesCloud(options, <<"a","z","u","r","e",".","u","s">>)
        THEN /\ IsSome(client) => Val(client).scope = SCOPE_GOVERNMENT
             /\ ~FailedForMissingScope
        ELSE IF EndpointNamesCloud(options, <<"a","z","u","r","e",".","c","o","m">>)
        THEN /\ IsSome(client) => Val(client).scope = SCOPE_COMMERCIAL
             /\ ~FailedForMissingScope
        ELSE /\ IsNone(client)
             /\ pc \in {"idle", "start", "failed"}
             /\ pc = "failed" => FailedForMissingScope

\* A call on a handler for an Azure Stack endpoint with no custom scope
\* ended with the error of the missing custom scope
C19_Witness ==
    /\ StackWithoutScope(options)
    /\ options.microsoftFoundryEndpoint = ENDPOINT_STACK
    /\ calls = 1
    /\ FailedForMissingScope

\* The declared cloud environment, "commercial" when none is declared
DeclaredEnvironment(opts) ==
    IF Has(opts, "microsoftFoundryCloudEnvironment")
    THEN opts.microsoftFoundryCloudEnvironment
    ELSE "commercial"

CustomScopeSet(opts) ==
    Has(opts, "microsoftFoundryCustomScope") /\ opts.microsoftFoundryCustomScope # << >>

\* C20: the audience scope of a client with identity-based authentication
\* is the custom scope when the environment is "stack" and a custom scope is
\* set; otherwise the government scope when the endpoint names azure.us and
\* the commercial scope when it names azure.com; otherwise the scope of the
\* declared environment.  A custom scope is ignored for the commercial and
\* government environments, and an endpoint match overrides the declared
\* environment.
C20_ScopePriority ==
    ( /\ Has(options, "microsoftFoundryUseIdentity")
      /\ options.microsoftFoundryUseIdentity
      /\ IsSome(client) ) =>
        Val(client).scope =
            IF DeclaredEnvironment(options) = "stack" /\ CustomScopeSet(options)
            THEN options.microsoftFoundryCustomScope
            ELSE IF EndpointNamesCloud(options, <<"a","z","u","r","e",".","u","s">>)
            THEN SCOPE_GOVERNMENT
            ELSE IF EndpointNamesCloud(options, <<"a","z","u","r","e",".","c","o","m">>)
            THEN SCOPE_COMMERCIAL
            ELSE IF DeclaredEnvironment(options) = "government"
            THEN SCOPE_GOVERNMENT
            ELSE IF DeclaredEnvironment(options) = "commercial"
            THEN SCOPE_COMMERCIAL
            ELSE << >>

\* A client was constructed with the commercial scope for an azure.com
\* endpoint although the government environment is declared and a custom
\* scope is set
C20_Witness ==
    /\ IsSome(client)
    /\ options.microsoftFoundryEndpoint = ENDPOINT_COMMERCIAL
    /\ DeclaredEnvironment(options) = "government"
    /\ CustomScopeSet(options)
    /\ Val(client).scope = SCOPE_COMMERCIAL

TwoChunks ==
    { ToolChunk(<< [index |-> 0, id |-> CALL_1, name |-> TOOL_READ,
                    arguments |-> ARG_A] >>),
      ToolChunk(<< [index |-> 0, arguments |-> ARG_B] >>),
      ToolChunk(<< [index |-> 1, id |-> CALL_2, name |-> TOOL_WRITE,
                    arguments |-> ARG_D] >>) }

\* One handler with the test options and two callers: the calls of the
\* first caller follow one another, the call of the second caller runs at
\* any time in between
InitTwo == InitHandler(BASE_OPTIONS) /\ InitOther /\ InitSettings(EmptyObject)
      /\ InitAzure /\ InitService

NextTwo ==
    \/ \E a \in OneCall : CallCreateMessage(a)
    \/ StartAttempt(None)
    \/ ProviderCreated
    \/ ProviderCreateFailed(NewError(ERR_BOOM))
    \/ \E c \in TwoChunks : PullChunk(c)
    \/ YieldEvent
    \/ StreamEnd
    \/ ConsumerReturn
    \/ StreamFailed(NewError(ERR_BOOM))
    \/ \E a \in OneCall : OtherStart(a, None)
    \/ OtherCreated
    \/ \E c \in TwoChunks : OtherPull(c)
    \/ OtherYield
    \/ OtherEnd
    \/ OtherFailed(NewError(ERR_BOOM))

SpecTwo == InitTwo /\ [][NextTwo]_vars

\* The normaliser run over chunks from state on: the events it yields and
\* the processor it ends with; it stops at a chunk it throws on
RECURSIVE Replay(_, _)
Replay(state, chunks) ==
    IF chunks = << >> \/ ChunkThrows(Head(chunks))
    THEN [state |-> state, events |-> << >>]
    ELSE LET rest == Replay(ToolCallsOf(state, DeltaOf(Head(chunks))).state,
                            Tail(chunks))
         IN  [state |-> rest.state,
              events |-> ChunkEvents(state, Head(chunks)) \o rest.events]

IsPrefixOf(s, t) == Len(s) <= Len(t) /\ SubSeq(t, 1, Len(s)) = s

\* The events a call has yielded or is about to yield are those of its own
\* chunks run through a processor of its own
OwnEventsOnly(position, chunks, state, yielded, pending) ==
    LET own == Replay(NewToolCallProcessor, chunks)
    IN  /\ IsPrefixOf(yielded \o pending, own.events)
        /\ position = "streaming" =>
              (yielded \o pending = own.events /\ state = own.state)

\* C22: of two createMessage requests on one handler, run one after the
\* other or with their chunk pulls interleaved, each yields the events of
\* its own chunks only, reassembled from an empty tool-call state; a step of
\* one request changes nothing of the other request; and the client both
\* use is not replaced once it is constructed.
C22_RequestsIsolated ==
    /\ [](OwnEventsOnly(pc, chunksSeen, toolState,
                        [i \in DOMAIN delivered |-> delivered[i].event],
                        outbox))
    /\ [](OwnEventsOnly(other.pc, other.chunksSeen, other.toolState,
                        other.delivered, other.outbox))
    /\ [][ other' # other => UNCHANGED firstCallVars ]_vars
    /\ [][ IsSome(client) => client' = client ]_vars

\* Both requests are streaming on the one client; the first has delivered
\* the completion of its index 0, the second holds index 0 still open
C22_Witness ==
    /\ pc = "streaming"
    /\ other.pc = "streaming"
    /\ clientsBuilt = 1
    /\ Len(chunksSeen) = 2
    /\ Len(other.chunksSeen) = 1
    /\ \E i \in DOMAIN delivered : delivered[i].event.type = "tool_call_complete"
    /\ other.delivered = << >>
    /\ IsOpen(other.toolState, 0)
    /\ ~IsOpen(toolState, 0)

\* The deployment id the settings view stored for a mode, <<>> when none is
StoredDeploymentId(cfg, mode) ==
    IF mode = "plan"
    THEN IF Has(cfg, "planModeMicrosoftFoundryDeploymentId")
         THEN Some(cfg.planModeMicrosoftFoundryDeploymentId) ELSE None
    ELSE IF Has(cfg, "actModeMicrosoftFoundryDeploymentId")
         THEN Some(cfg.actModeMicrosoftFoundryDeploymentId) ELSE None

\* Two capability records agree on the limits and on the capability flags
\* (an absent flag counts as false)
SameCapabilities(a, b) ==
    /\ a.maxTokens = b.maxTokens
    /\ a.contextWindow = b.contextWindow
    /\ \A f \in {"supportsImages", "supportsPromptCache", "supportsReasoning"} :
          TruthyBool(a, f) <=> TruthyBool(b, f)

\* C24: for every model name the settings view's getModelCapabilities and
\* the handler's getModelCapabilities return the same maxTokens,
\* contextWindow, supportsImages, supportsPromptCache and supportsReasoning:
\* the model info the settings view stored for a selected deployment of a
\* model agrees with the info getModel resolves, with no model info stored,
\* for a deployment named as that model.
C24_SameCapabilities ==
    \A mode \in {"plan", "act"} :
        LET stored == StoredModelInfo(apiConfiguration, mode)
            id == StoredDeploymentId(apiConfiguration, mode)
        IN  ( /\ IsSome(model)
              /\ ~Has(options, "microsoftFoundryModelInfo")
              /\ IsSome(stored)
              /\ IsSome(id)
              /\ IsSome(FindDeployment(Val(id)))
              /\ Val(FindDeployment(Val(id))).model = Val(model).id )
               => SameCapabilities(Val(stored), Val(model).info)

\* Outcomes of the deployment service for a resource with the deployments
\* "prod" of gpt-4o and "o1"
SettingsResponses ==
    ResponsesFor(DEP_GPT_4O)
      \cup { [deployments |-> << [id |-> DEP_PROD, model |-> DEP_GPT_4O],
                                 [id |-> DEP_O1] >>] }

\* A settings view over a stored configuration; the user discovers, selects
\* and types deployments and switches the cloud environment
InitSettingsView ==
    /\ InitHandler(BASE_OPTIONS)
    /\ InitOther
    /\ \E cfg \in SettingsConfigurations : InitSettings(cfg)
    /\ InitAzure
    /\ InitService

NextSettingsView ==
    \/ \E r \in SettingsResponses : DiscoverDeployments(r)
    \/ \E mode \in {"plan", "act"} : \E d \in DropdownValues :
           HandleDeploymentChange(mode, d)
    \/ \E mode \in {"plan", "act"} : \E v \in {DEP_O1, DEP_GPT_4O} :
           HandleManualDeploymentId(mode, v)
    \/ \E v \in {"commercial", "government", "stack"} :
           HandleCloudEnvironmentChange(v)

SpecSettingsView == InitSettingsView /\ [][NextSettingsView]_vars

\* The capability record the settings view resolves for a deployment id:
\* that of the model of the discovered deployment, the default record when
\* no discovered deployment has the id
ResolvedForDeployment(deploymentId) ==
    IF IsSome(FindDeployment(deploymentId))
    THEN SettingsGetModelCapabilities(Val(FindDeployment(deploymentId)).model)
    ELSE SETTINGS_DEFAULT_MODEL_INFO

\* C25: whenever an operation of the settings view changes the deployment
\* id stored for a mode, the model info stored for that mode afterwards is
\* unset or is the capability record resolved for the new deployment id;
\* it is not the record of the deployment selected before.
C25_NoStaleModelInfo ==
    [][ \A mode \in {"plan", "act"} :
          ( /\ StoredDeploymentId(apiConfiguration', mode)
                 # StoredDeploymentId(apiConfiguration, mode)
            /\ IsSome(StoredDeploymentId(apiConfiguration', mode))
            /\ IsSome(StoredModelInfo(apiConfiguration', mode)) )
             => Val(StoredModelInfo(apiConfiguration', mode))
                  = ResolvedForDeployment(
                        Val(StoredDeploymentId(apiConfiguration', mode))) ]_vars

\* x-api-key
HEADER_X_API_KEY == <<"x","-","a","p","i","-","k","e","y">>

\* secret
HEADER_VALUE == <<"s","e","c","r","e","t">>

\* Stored configurations the Azure OpenAI view is mounted over
AzureConfigurations ==
    { EmptyObject,
      [openAiBaseUrl |-> ENDPOINT_COMMERCIAL, openAiApiKey |-> API_KEY] }

\* The header names the editor can show
HeaderNames ==
    { STR_HEADER \o ToDecimal(n) : n \in 1 .. MaxHeaders } \cup {HEADER_X_API_KEY}

\* The Azure OpenAI view: the user edits the custom headers
InitAzureHeaders ==
    /\ InitHandler(BASE_OPTIONS)
    /\ InitOther
    /\ \E cfg \in AzureConfigurations : InitSettings(cfg)
    /\ InitAzure
    /\ InitService

NextAzureHeaders ==
    \/ AddHeader
    \/ \E key \in HeaderNames : EditHeaderName(key, HEADER_X_API_KEY)
    \/ \E key \in HeaderNames : EditHeaderValue(key, HEADER_VALUE)
    \/ \E key \in HeaderNames : RemoveHeader(key)

SpecAzureHeaders == InitAzureHeaders /\ [][NextAzureHeaders]_vars

\* C26: in the custom-headers editor, Add Header makes the number of
\* headers one more and leaves the name and the value of every header that
\* existed unchanged.
C26_AddHeaderAddsOne ==
    [][ AddHeader =>
          LET before == HeadersOf(apiConfiguration)
              after == HeadersOf(apiConfiguration')
          IN  /\ Cardinality(DOMAIN after) = Cardinality(DOMAIN before) + 1
              /\ \A key \in DOMAIN before :
                    key \in DOMAIN after /\ after[key] = before[key] ]_vars

\* Values typed into the endpoint field and into the API key field
BaseUrls == { ENDPOINT_COMMERCIAL, ENDPOINT_GOVERNMENT, STR_EMPTY }
ApiKeys == { API_KEY, STR_EMPTY }

\* The time that passes in one step, in ms
TickSteps == { 100, 400 }

\* The Azure OpenAI view: the user edits the endpoint and the API key,
\* presses the discovery button and leaves the view, while time passes
InitAzureRefresh ==
    /\ InitHandler(BASE_OPTIONS)
    /\ InitOther
    /\ \E cfg \in AzureConfigurations : InitSettings(cfg)
    /\ InitAzure
    /\ InitService

NextAzureRefresh ==
    \/ \E v \in BaseUrls : HandleBaseUrlChange(v)
    \/ \E v \in ApiKeys : HandleApiKeyChange(v)
    \/ \E b \in BOOLEAN : HandleAzureIdentityChange(b)
    \/ \E d \in TickSteps : Tick(d)
    \/ \E t \in timers : TimerFires(t)
    \/ AutoDiscoverModels
    \/ Unmount

SpecAzureRefresh == InitAzureRefresh /\ [][NextAzureRefresh]_vars

\* A change of the endpoint or of the API key
FieldChange ==
    \/ \E v \in BaseUrls : HandleBaseUrlChange(v)
    \/ \E v \in ApiKeys : HandleApiKeyChange(v)

\* The step issues a refresh request from a timer
TimerRefresh ==
    /\ Len(refreshRequests') = Len(refreshRequests) + 1
    /\ refreshRequests'[Len(refreshRequests')].by = "timer"

\* C29: at most one refresh timer is pending at any time; every change of
\* the endpoint or of the API key cancels the pending timer; a timer issues
\* a refresh request only when 500 ms have passed since the last change,
\* only if the base URL and the API key passed with that change are both
\* non-empty, and with those two values; and none is issued by a timer
\* once the view is unmounted.
C29_DebouncedRefresh ==
    /\ [](Cardinality(timers) <= 1)
    /\ [][ FieldChange => timers' \cap timers = {} ]_vars
    /\ [][ TimerRefresh =>
             LET issued == refreshRequests'[Len(refreshRequests')]
             IN  /\ mounted
                 /\ IsSome(lastChange)
                 /\ Val(lastChange).elapsed >= DEBOUNCE_MS
                 /\ TruthyOpt(Val(lastChange).baseUrl)
                 /\ TruthyOpt(Val(lastChange).apiKey)
                 /\ issued.baseUrl = Val(Val(lastChange).baseUrl)
                 /\ issued.apiKey = Val(Val(lastChange).apiKey) ]_vars
    /\ [](~mounted => timers = {})

\* The endpoint was changed twice within 500 ms: the timer of the first
\* change was cancelled and the timer of the second issued the one request
C29_Witness ==
    /\ timersSet = 2
    /\ Len(refreshRequests) = 1
    /\ refreshRequests[1].by = "timer"
    /\ refreshRequests[1].baseUrl = ENDPOINT_GOVERNMENT
    /\ timers = {}

(***************************************************************************)
(* The deployment service: the texts of part_003 and part_002                *)
(***************************************************************************)
\* No endpoint URL provided
MSG_NO_ENDPOINT ==
    << "N","o"," ","e","n","d","p","o","i","n","t"," ","U","R","L"," ","p",
       "r","o","v","i","d","e","d" >>

\* Could not extract resource name from endpoint URL.
MSG_NO_RESOURCE_NAME ==
    << "C","o","u","l","d"," ","n","o","t"," ","e","x","t","r","a","c","t",
       " ","r","e","s","o","u","r","c","e"," ","n","a","m","e"," ","f","r",
       "o","m"," ","e","n","d","p","o","i","n","t"," ","U","R","L","." >>

\* Invalid resource name format. Resource names must be alphanumeric and
\* can contain hyphens.
MSG_INVALID_RESOURCE_NAME ==
    << "I","n","v","a","l","i","d"," ","r","e","s","o","u","r","c","e"," ",
       "n","a","m","e"," ","f","o","r","m","a","t","."," ","R","e","s","o",
       "u","r","c","e"," ","n","a","m","e","s"," ","m","u","s","t"," ","b",
       "e"," ","a","l","p","h","a","n","u","m","e","r","i","c"," ","a","n",
       "d"," ","c","a","n"," ","c","o","n","t","a","i","n"," ","h","y","p",
       "h","e","n","s","." >>

\* https://management.azure.com
MANAGEMENT_COMMERCIAL ==
    << "h","t","t","p","s",":","/","/","m","a","n","a","g","e","m","e","n",
       "t",".","a","z","u","r","e",".","c","o","m" >>

\* https://management.azure.com/.default
MANAGEMENT_COMMERCIAL_SCOPE ==
    << "h","t","t","p","s",":","/","/","m","a","n","a","g","e","m","e","n",
       "t",".","a","z","u","r","e",".","c","o","m","/",".","d","e","f","a",
       "u","l","t" >>

\* https://management.usgovcloudapi.net
MANAGEMENT_GOVERNMENT ==
    << "h","t","t","p","s",":","/","/","m","a","n","a","g","e","m","e","n",
       "t",".","u","s","g","o","v","c","l","o","u","d","a","p","i",".","n",
       "e","t" >>

\* https://management.usgovcloudapi.net/.default
MANAGEMENT_GOVERNMENT_SCOPE ==
    << "h","t","t","p","s",":","/","/","m","a","n","a","g","e","m","e","n",
       "t",".","u","s","g","o","v","c","l","o","u","d","a","p","i",".","n",
       "e","t","/",".","d","e","f","a","u","l","t" >>

\* /.default
STR_SLASH_DEFAULT ==
    << "/",".","d","e","f","a","u","l","t" >>

\* .azure.us
STR_DOT_AZURE_US ==
    << ".","a","z","u","r","e",".","u","s" >>

\* Failed to acquire access token for Azure Management API.
MSG_NO_TOKEN ==
    << "F","a","i","l","e","d"," ","t","o"," ","a","c","q","u","i","r","e",
       " ","a","c","c","e","s","s"," ","t","o","k","e","n"," ","f","o","r",
       " ","A","z","u","r","e"," ","M","a","n","a","g","e","m","e","n","t",
       " ","A","P","I","." >>

\* /providers/Microsoft.ResourceGraph/resources?api-version=2021-03-01
PATH_RESOURCE_GRAPH ==
    << "/","p","r","o","v","i","d","e","r","s","/","M","i","c","r","o","s",
       "o","f","t",".","R","e","s","o","u","r","c","e","G","r","a","p","h",
       "/","r","e","s","o","u","r","c","e","s","?","a","p","i","-","v","e",
       "r","s","i","o","n","=","2","0","2","1","-","0","3","-","0","1" >>

\* /deployments?api-version=2023-05-01
PATH_DEPLOYMENTS ==
    << "/","d","e","p","l","o","y","m","e","n","t","s","?","a","p","i","-",
       "v","e","r","s","i","o","n","=","2","0","2","3","-","0","5","-","0",
       "1" >>

\* Resource Graph query failed:
MSG_GRAPH_FAILED ==
    << "R","e","s","o","u","r","c","e"," ","G","r","a","p","h"," ","q","u",
       "e","r","y"," ","f","a","i","l","e","d",":"," " >>

\* Failed to list deployments:
MSG_LIST_FAILED ==
    << "F","a","i","l","e","d"," ","t","o"," ","l","i","s","t"," ","d","e",
       "p","l","o","y","m","e","n","t","s",":"," " >>

\* Could not find Azure OpenAI resource '
MSG_RESOURCE_NOT_FOUND_HEAD ==
    << "C","o","u","l","d"," ","n","o","t"," ","f","i","n","d"," ","A","z",
       "u","r","e"," ","O","p","e","n","A","I"," ","r","e","s","o","u","r",
       "c","e"," ","'" >>

\* ' in your visible subscriptions. Ensure you are logged in to the
\* correct tenant.
MSG_RESOURCE_NOT_FOUND_TAIL ==
    << "'"," ","i","n"," ","y","o","u","r"," ","v","i","s","i","b","l","e",
       " ","s","u","b","s","c","r","i","p","t","i","o","n","s","."," ","E",
       "n","s","u","r","e"," ","y","o","u"," ","a","r","e"," ","l","o","g",
       "g","e","d"," ","i","n"," ","t","o"," ","t","h","e"," ","c","o","r",
       "r","e","c","t"," ","t","e","n","a","n","t","." >>

\* No deployments found for this resource.
MSG_NO_DEPLOYMENTS_FOUND ==
    << "N","o"," ","d","e","p","l","o","y","m","e","n","t","s"," ","f","o",
       "u","n","d"," ","f","o","r"," ","t","h","i","s"," ","r","e","s","o",
       "u","r","c","e","." >>

\* CredentialUnavailableError
STR_CREDENTIAL_UNAVAILABLE ==
    << "C","r","e","d","e","n","t","i","a","l","U","n","a","v","a","i","l",
       "a","b","l","e","E","r","r","o","r" >>

\* Could not retrieve token
STR_COULD_NOT_RETRIEVE ==
    << "C","o","u","l","d"," ","n","o","t"," ","r","e","t","r","i","e","v",
       "e"," ","t","o","k","e","n" >>

\* Authentication failed. Please check your Azure CLI login status ('az
\* login') or environment variables.
MSG_AUTHENTICATION_FAILED ==
    << "A","u","t","h","e","n","t","i","c","a","t","i","o","n"," ","f","a",
       "i","l","e","d","."," ","P","l","e","a","s","e"," ","c","h","e","c",
       "k"," ","y","o","u","r"," ","A","z","u","r","e"," ","C","L","I"," ",
       "l","o","g","i","n"," ","s","t","a","t","u","s"," ","(","'","a","z",
       " ","l","o","g","i","n","'",")"," ","o","r"," ","e","n","v","i","r",
       "o","n","m","e","n","t"," ","v","a","r","i","a","b","l","e","s","." >>

\* Reference error:
MSG_REFERENCE_ERROR ==
    << "R","e","f","e","r","e","n","c","e"," ","e","r","r","o","r",":"," " >>

\* Cannot read properties of null (reading 'name')
MSG_NULL_NAME ==
    << "C","a","n","n","o","t"," ","r","e","a","d"," ","p","r","o","p","e",
       "r","t","i","e","s"," ","o","f"," ","n","u","l","l"," ","(","r","e",
       "a","d","i","n","g"," ","'","n","a","m","e","'",")" >>

\* Cannot read properties of null (reading 'data')
MSG_NULL_DATA ==
    << "C","a","n","n","o","t"," ","r","e","a","d"," ","p","r","o","p","e",
       "r","t","i","e","s"," ","o","f"," ","n","u","l","l"," ","(","r","e",
       "a","d","i","n","g"," ","'","d","a","t","a","'",")" >>

\* Cannot read properties of null (reading 'value')
MSG_NULL_VALUE ==
    << "C","a","n","n","o","t"," ","r","e","a","d"," ","p","r","o","p","e",
       "r","t","i","e","s"," ","o","f"," ","n","u","l","l"," ","(","r","e",
       "a","d","i","n","g"," ","'","v","a","l","u","e","'",")" >>

\* Unexpected end of JSON input
MSG_INVALID_JSON ==
    << "U","n","e","x","p","e","c","t","e","d"," ","e","n","d"," ","o","f",
       " ","J","S","O","N"," ","i","n","p","u","t" >>

\* Cannot read properties of undefined (reading 'id')
MSG_UNDEFINED_ID ==
    << "C","a","n","n","o","t"," ","r","e","a","d"," ","p","r","o","p","e",
       "r","t","i","e","s"," ","o","f"," ","u","n","d","e","f","i","n","e",
       "d"," ","(","r","e","a","d","i","n","g"," ","'","i","d","'",")" >>

\* deployments.map is not a function
MSG_MAP_NOT_A_FUNCTION ==
    << "d","e","p","l","o","y","m","e","n","t","s",".","m","a","p"," ","i",
       "s"," ","n","o","t"," ","a"," ","f","u","n","c","t","i","o","n" >>

\* Could not extract resource name from endpoint URL. Expected format:
\* https://<resource-name>.openai.azure.com or
\* https://<resource-name>.cognitiveservices.azure.com
CLI_MSG_NO_RESOURCE_NAME ==
    << "C","o","u","l","d"," ","n","o","t"," ","e","x","t","r","a","c","t",
       " ","r","e","s","o","u","r","c","e"," ","n","a","m","e"," ","f","r",
       "o","m"," ","e","n","d","p","o","i","n","t"," ","U","R","L","."," ",
       "E","x","p","e","c","t","e","d"," ","f","o","r","m","a","t",":"," ",
       "h","t","t","p","s",":","/","/","<","r","e","s","o","u","r","c","e",
       "-","n","a","m","e",">",".","o","p","e","n","a","i",".","a","z","u",
       "r","e",".","c","o","m"," ","o","r"," ","h","t","t","p","s",":","/",
       "/","<","r","e","s","o","u","r","c","e","-","n","a","m","e",">",".",
       "c","o","g","n","i","t","i","v","e","s","e","r","v","i","c","e","s",
       ".","a","z","u","r","e",".","c","o","m" >>

\* Could not find Azure resource '
CLI_MSG_RESOURCE_NOT_FOUND_HEAD ==
    << "C","o","u","l","d"," ","n","o","t"," ","f","i","n","d"," ","A","z",
       "u","r","e"," ","r","e","s","o","u","r","c","e"," ","'" >>

\* '. Make sure you are signed in to the correct Azure subscription with
\* 'az login'.
CLI_MSG_RESOURCE_NOT_FOUND_TAIL ==
    << "'","."," ","M","a","k","e"," ","s","u","r","e"," ","y","o","u"," ",
       "a","r","e"," ","s","i","g","n","e","d"," ","i","n"," ","t","o"," ",
       "t","h","e"," ","c","o","r","r","e","c","t"," ","A","z","u","r","e",
       " ","s","u","b","s","c","r","i","p","t","i","o","n"," ","w","i","t",
       "h"," ","'","a","z"," ","l","o","g","i","n","'","." >>

\* No deployments found for this resource. Deploy a model in Azure AI
\* Foundry first.
CLI_MSG_NO_DEPLOYMENTS_FOUND ==
    << "N","o"," ","d","e","p","l","o","y","m","e","n","t","s"," ","f","o",
       "u","n","d"," ","f","o","r"," ","t","h","i","s"," ","r","e","s","o",
       "u","r","c","e","."," ","D","e","p","l","o","y"," ","a"," ","m","o",
       "d","e","l"," ","i","n"," ","A","z","u","r","e"," ","A","I"," ","F",
       "o","u","n","d","r","y"," ","f","i","r","s","t","." >>

\* az: command not found
STR_AZ_NOT_FOUND ==
    << "a","z",":"," ","c","o","m","m","a","n","d"," ","n","o","t"," ","f",
       "o","u","n","d" >>

\* 'az' is not recognized
STR_AZ_NOT_RECOGNIZED ==
    << "'","a","z","'"," ","i","s"," ","n","o","t"," ","r","e","c","o","g",
       "n","i","z","e","d" >>

\* Azure CLI (az) is not installed or not in PATH. Please install Azure
\* CLI: https://docs.microsoft.com/cli/azure/install-azure-cli
CLI_MSG_NOT_INSTALLED ==
    << "A","z","u","r","e"," ","C","L","I"," ","(","a","z",")"," ","i","s",
       " ","n","o","t"," ","i","n","s","t","a","l","l","e","d"," ","o","r",
       " ","n","o","t"," ","i","n"," ","P","A","T","H","."," ","P","l","e",
       "a","s","e"," ","i","n","s","t","a","l","l"," ","A","z","u","r","e",
       " ","C","L","I",":"," ","h","t","t","p","s",":","/","/","d","o","c",
       "s",".","m","i","c","r","o","s","o","f","t",".","c","o","m","/","c",
       "l","i","/","a","z","u","r","e","/","i","n","s","t","a","l","l","-",
       "a","z","u","r","e","-","c","l","i" >>

\* Please run 'az login'
STR_RUN_AZ_LOGIN ==
    << "P","l","e","a","s","e"," ","r","u","n"," ","'","a","z"," ","l","o",
       "g","i","n","'" >>

\* AADSTS
STR_AADSTS ==
    << "A","A","D","S","T","S" >>

\* Not signed in to Azure CLI. Please run 'az login' in a terminal first.
CLI_MSG_NOT_SIGNED_IN ==
    << "N","o","t"," ","s","i","g","n","e","d"," ","i","n"," ","t","o"," ",
       "A","z","u","r","e"," ","C","L","I","."," ","P","l","e","a","s","e",
       " ","r","u","n"," ","'","a","z"," ","l","o","g","i","n","'"," ","i",
       "n"," ","a"," ","t","e","r","m","i","n","a","l"," ","f","i","r","s",
       "t","." >>

\* does not have authorization
STR_NO_AUTHORIZATION ==
    << "d","o","e","s"," ","n","o","t"," ","h","a","v","e"," ","a","u","t",
       "h","o","r","i","z","a","t","i","o","n" >>

\* AuthorizationFailed
STR_AUTHORIZATION_FAILED ==
    << "A","u","t","h","o","r","i","z","a","t","i","o","n","F","a","i","l",
       "e","d" >>

\* Insufficient permissions. Ensure you have 'Cognitive Services User' or
\* 'Contributor' role on the resource.
CLI_MSG_NO_PERMISSION ==
    << "I","n","s","u","f","f","i","c","i","e","n","t"," ","p","e","r","m",
       "i","s","s","i","o","n","s","."," ","E","n","s","u","r","e"," ","y",
       "o","u"," ","h","a","v","e"," ","'","C","o","g","n","i","t","i","v",
       "e"," ","S","e","r","v","i","c","e","s"," ","U","s","e","r","'"," ",
       "o","r"," ","'","C","o","n","t","r","i","b","u","t","o","r","'"," ",
       "r","o","l","e"," ","o","n"," ","t","h","e"," ","r","e","s","o","u",
       "r","c","e","." >>

(***************************************************************************)
(* The deployment service: getMicrosoftFoundryDeployments                    *)
(* The variant of part_003 asks Azure Resource Manager over HTTP, the        *)
(* variant of part_002 runs the Azure CLI.  A JSON value is                  *)
(* [kind |-> "null"], a record with kind "object" and the properties that    *)
(* are present, or [kind |-> "array", items |-> a sequence].  externalCalls  *)
(* lists, in order, every call the running request made to the credential, *)
(* to fetch or to execSync.                                                  *)
(***************************************************************************)
STR_HTTPS == << "h","t","t","p","s",":","/","/" >>

STR_OPENAI == << "o","p","e","n","a","i" >>

STR_COGNITIVESERVICES ==
    << "c","o","g","n","i","t","i","v","e","s","e","r","v","i","c","e","s" >>

STR_AZURE == << "a","z","u","r","e" >>

STR_COM == << "c","o","m" >>

STR_US == << "u","s" >>

\* The characters that end the host of a URL
HostEnd == {"/", ":", "?", "#"}

\* Characters new URL() rejects in the host of an https URL
ForbiddenHostChars == {" ", "<", ">", "@", "[", "]", "^", "|", "%", "\\"}

RECURSIVE TakeHost(_)
TakeHost(s) ==
    IF s = << >> \/ Head(s) \in HostEnd
    THEN << >>
    ELSE << Head(s) >> \o TakeHost(Tail(s))

\* new URL(endpoint).hostname for the https URLs and the scheme-less
\* strings of the inputs: <<>> when the constructor throws, else
\* <<the host, lower-cased by the parser>>
UrlHostname(endpoint) ==
    IF StartsWith(endpoint, STR_HTTPS)
    THEN LET host == TakeHost(SubSeq(endpoint, Len(STR_HTTPS) + 1,
                                     Len(endpoint)))
         IN  IF \/ host = << >>
                \/ \E i \in DOMAIN host : host[i] \in ForbiddenHostChars
             THEN None
             ELSE Some(ToLowerCase(host))
    ELSE None

RECURSIVE SplitFrom(_, _, _)
SplitFrom(s, separator, current) ==
    IF s = << >>
    THEN << current >>
    ELSE IF Head(s) = separator
         THEN << current >> \o SplitFrom(Tail(s), separator, << >>)
         ELSE SplitFrom(Tail(s), separator, Append(current, Head(s)))

\* String.prototype.split with a one-character separator
Split(s, separator) == SplitFrom(s, separator, << >>)

\* hostname.match(/^([^.]+)\.(openai|cognitiveservices)\.(azure\.com|azure\.us)$/):
\* <<>> for no match, else <<the first group>>
MatchStandardHost(hostname) ==
    LET parts == Split(hostname, ".")
    IN  IF /\ Len(parts) = 4
           /\ parts[1] # << >>
           /\ parts[2] \in {STR_OPENAI, STR_COGNITIVESERVICES}
           /\ parts[3] = STR_AZURE
           /\ parts[4] \in {STR_COM, STR_US}
        THEN Some(parts[1])
        ELSE None

\* part_003: the standard pattern, else the first label of the host; null
\* (<<>>) when the URL does not parse
extractResourceNameFromEndpoint(endpoint) ==
    LET url == UrlHostname(endpoint)
    IN  IF IsNone(url)
        THEN None
        ELSE LET hostname == ToLowerCase(Val(url))
                 match == MatchStandardHost(hostname)
             IN  IF IsSome(match)
                 THEN match
                 ELSE Some(Split(hostname, ".")[1])

\* part_002: the standard pattern only
CliExtractResourceNameFromEndpoint(endpoint) ==
    LET url == UrlHostname(endpoint)
    IN  IF IsNone(url)
        THEN None
        ELSE MatchStandardHost(ToLowerCase(Val(url)))

\* !resourceName: null or the empty string
NoResourceName(resourceName) ==
    IsNone(resourceName) \/ Val(resourceName) = << >>

NameChars ==
    {LowerCase[i] : i \in DOMAIN LowerCase}
        \cup {UpperCase[i] : i \in DOMAIN UpperCase}
        \cup {DIGITS[i] : i \in DOMAIN DIGITS}
        \cup {"-"}

IsValidResourceName_Any(resourceName) == TRUE

\* /^[a-z0-9-]+$/i.test(resourceName)
IsValidResourceName(resourceName) ==
    /\ resourceName # << >>
    /\ \A i \in DOMAIN resourceName : resourceName[i] \in NameChars

ErrorResponse(message) == [deployments |-> << >>, error |-> message]

\* armEndpoint.replace(/\/$/, "")
StripTrailingSlash(s) ==
    IF s # << >> /\ s[Len(s)] = "/" THEN SubSeq(s, 1, Len(s) - 1) ELSE s

\* The management endpoint and the token audience of a request
ManagementOf(req) ==
    LET isGov == Includes(ToLowerCase(req.endpoint), STR_DOT_AZURE_US)
    IN  IF TruthyStr(req, "armEndpoint")
        THEN LET managementEndpoint == StripTrailingSlash(req.armEndpoint)
             IN  [managementEndpoint |-> managementEndpoint,
                  audienceScope |-> managementEndpoint \o STR_SLASH_DEFAULT]
        ELSE IF isGov
             THEN [managementEndpoint |-> MANAGEMENT_GOVERNMENT,
                   audienceScope |-> MANAGEMENT_GOVERNMENT_SCOPE]
             ELSE [managementEndpoint |-> MANAGEMENT_COMMERCIAL,
                   audienceScope |-> MANAGEMENT_COMMERCIAL_SCOPE]

\* The catch block of part_003
CatchResponse(error) ==
    LET errorMessage == error.message
    IN  IF \/ Includes(errorMessage, STR_CREDENTIAL_UNAVAILABLE)
           \/ Includes(errorMessage, STR_COULD_NOT_RETRIEVE)
        THEN ErrorResponse(MSG_AUTHENTICATION_FAILED)
        ELSE ErrorResponse(MSG_REFERENCE_ERROR \o errorMessage)

TryCatch_Rethrow(result) == result

\* try { ... } catch (error) { return ... } around a block whose outcome is
\* result
TryCatch(result) ==
    IF Threw(result)
    THEN Return(CatchResponse(Val(result.thrown)))
    ELSE result

\* d.properties?.model?.[field] ?? fallback
ModelProperty(d, field, fallback) ==
    IF /\ Has(d, "properties")
       /\ Has(d.properties, "model")
       /\ Has(d.properties.model, field)
    THEN d.properties.model[field]
    ELSE fallback

\* The element of the response for one listed deployment
ListedDeployment(d) ==
    [id |-> d.name,
     model |-> ModelProperty(d, "name", d.name),
     modelVersion |-> ModelProperty(d, "version", << >>)]

\* deployments.map(...): reading d.name of a null element throws
MapDeployments(listed) ==
    IF \E i \in DOMAIN listed : listed[i].kind = "null"
    THEN Throw(NewError(MSG_NULL_NAME))
    ELSE Return([deployments |->
                    [i \in DOMAIN listed |-> ListedDeployment(listed[i])]])

\* The call is over with the given outcome
Finish(result) ==
    /\ armPc' = "returned"
    /\ deploymentsResult' = Some(result)

\* !x || x.length === 0 for the property f of a JSON object
MissingOrEmpty(o, f) ==
    \/ ~Has(o, f)
    \/ o[f].kind = "null"
    \/ o[f].kind = "array" /\ Len(o[f].items) = 0

\* response.json() of an HTTP response or JSON.parse of a command's output
ParseJson(response) ==
    IF Has(response, "json")
    THEN Return(response.json)
    ELSE Throw(NewError(MSG_INVALID_JSON))

ServiceIdle == armPc \in {"idle", "returned"}

\* part_003, lines 51-100: validation, endpoint selection, token request
ArmCall(req) ==
    /\ ServiceIdle
    /\ deploymentsRequest' = Some(req)
    /\ LET endpoint == req.endpoint
           resourceName == extractResourceNameFromEndpoint(endpoint)
       IN  IF endpoint = << >>
           THEN /\ Finish(Return(ErrorResponse(MSG_NO_ENDPOINT)))
                /\ armLocals' = [variant |-> "arm"]
                /\ externalCalls' = << >>
           ELSE IF NoResourceName(resourceName)
           THEN /\ Finish(Return(ErrorResponse(MSG_NO_RESOURCE_NAME)))
                /\ armLocals' = [variant |-> "arm"]
                /\ externalCalls' = << >>
           ELSE IF ~IsValidResourceName(Val(resourceName))
           THEN /\ Finish(Return(ErrorResponse(MSG_INVALID_RESOURCE_NAME)))
                /\ armLocals' = [variant |-> "arm",
                                 resourceName |-> Val(resourceName)]
                /\ externalCalls' = << >>
           ELSE LET management == ManagementOf(req)
                IN  /\ armPc' = "token"
                    /\ deploymentsResult' = None
                    /\ armLocals' =
                         [variant |-> "arm",
                          resourceName |-> Val(resourceName),
                          managementEndpoint |-> management.managementEndpoint,
                          audienceScope |-> management.audienceScope]
                    /\ externalCalls' =
                         << [kind |-> "getToken",
                             scope |-> management.audienceScope] >>
    /\ UNCHANGED << handlerVars, model, settingsVars, azureVars >>

\* part_003, lines 100-126: the token arrives (or not); the Resource Graph
\* query is sent.  outcome is [rejected |-> message] or [token |-> <<>>] or
\* [token |-> <<t>>]
ArmTokenResult(outcome) ==
    /\ armPc = "token"
    /\ IF Has(outcome, "rejected")
       THEN /\ Finish(TryCatch(Throw(NewError(outcome.rejected))))
            /\ UNCHANGED << armLocals, externalCalls >>
       ELSE IF IsNone(outcome.token)
       THEN /\ Finish(TryCatch(Throw(NewError(MSG_NO_TOKEN))))
            /\ UNCHANGED << armLocals, externalCalls >>
       ELSE /\ armPc' = "graph"
            /\ armLocals' = Spread(armLocals, [token |-> Val(outcome.token)])
            /\ externalCalls' =
                 Append(externalCalls,
                        [kind |-> "fetch",
                         method |-> "POST",
                         url |-> armLocals.managementEndpoint
                                    \o PATH_RESOURCE_GRAPH,
                         bearer |-> Val(outcome.token),
                         resourceName |-> armLocals.resourceName])
            /\ UNCHANGED deploymentsResult
    /\ UNCHANGED << handlerVars, model, settingsVars, azureVars,
                    deploymentsRequest >>

\* An HTTP response that is not ok, as the message the code throws
HttpFailure(prefix, response) ==
    prefix \o response.status \o << " " >> \o response.statusText
        \o << " ", "-", " " >> \o response.text

\* part_003, lines 128-156: the Resource Graph answer; the deployment
\* listing is requested.  outcome is [rejected |-> message] or an HTTP
\* response [ok, status, statusText, text] with json when the body parses
ArmGraphResult(outcome) ==
    /\ armPc = "graph"
    /\ LET block ==
             IF Has(outcome, "rejected")
             THEN Throw(NewError(outcome.rejected))
             ELSE IF ~outcome.ok
             THEN Throw(NewError(HttpFailure(MSG_GRAPH_FAILED, outcome)))
             ELSE LET argData == ParseJson(outcome)
                  IN  IF Threw(argData)
                      THEN argData
                      ELSE IF argData.value.kind = "null"
                      THEN Throw(NewError(MSG_NULL_DATA))
                      ELSE IF MissingOrEmpty(argData.value, "data")
                      THEN Return(ErrorResponse(
                               MSG_RESOURCE_NOT_FOUND_HEAD
                                   \o armLocals.resourceName
                                   \o MSG_RESOURCE_NOT_FOUND_TAIL))
                      ELSE IF argData.value.data.kind # "array"
                      THEN Throw(NewError(MSG_UNDEFINED_ID))
                      ELSE Return([resourceId |->
                                      argData.value.data.items[1].id])
       IN  IF ~Threw(block) /\ Has(block.value, "resourceId")
           THEN /\ armPc' = "listing"
                /\ armLocals' = Spread(armLocals,
                                       [argResponseOk |-> TRUE,
                                        resources |-> outcome.json.data.items,
                                        resourceId |-> block.value.resourceId])
                /\ externalCalls' =
                     Append(externalCalls,
                            [kind |-> "fetch",
                             method |-> "GET",
                             url |-> armLocals.managementEndpoint
                                        \o block.value.resourceId
                                        \o PATH_DEPLOYMENTS,
                             bearer |-> armLocals.token])
                /\ UNCHANGED deploymentsResult
           ELSE /\ Finish(TryCatch(block))
                /\ UNCHANGED << armLocals, externalCalls >>
    /\ UNCHANGED << handlerVars, model, settingsVars, azureVars,
                    deploymentsRequest >>

\* part_003, lines 158-194: the deployment listing answer
ArmListResult(outcome) ==
    /\ armPc = "listing"
    /\ LET block ==
             IF Has(outcome, "rejected")
             THEN Throw(NewError(outcome.rejected))
             ELSE IF ~outcome.ok
             THEN Throw(NewError(HttpFailure(MSG_LIST_FAILED, outcome)))
             ELSE LET deploymentsData == ParseJson(outcome)
                  IN  IF Threw(deploymentsData)
                      THEN deploymentsData
                      ELSE IF deploymentsData.value.kind = "null"
                      THEN Throw(NewError(MSG_NULL_VALUE))
                      ELSE IF MissingOrEmpty(deploymentsData.value, "value")
                      THEN Return(ErrorResponse(MSG_NO_DEPLOYMENTS_FOUND))
                      ELSE IF deploymentsData.value.value.kind # "array"
                      THEN Throw(NewError(MSG_MAP_NOT_A_FUNCTION))
                      ELSE MapDeployments(deploymentsData.value.value.items)
       IN  Finish(TryCatch(block))
    /\ UNCHANGED << handlerVars, model, settingsVars, azureVars,
                    deploymentsRequest, armLocals, externalCalls >>

\* The catch block of part_002
CliCatchResponse(error) ==
    LET errorMessage == error.message
    IN  IF \/ Includes(errorMessage, STR_AZ_NOT_FOUND)
           \/ Includes(errorMessage, STR_AZ_NOT_RECOGNIZED)
        THEN ErrorResponse(CLI_MSG_NOT_INSTALLED)
        ELSE IF \/ Includes(errorMessage, STR_RUN_AZ_LOGIN)
                \/ Includes(errorMessage, STR_AADSTS)
        THEN ErrorResponse(CLI_MSG_NOT_SIGNED_IN)
        ELSE IF \/ Includes(errorMessage, STR_NO_AUTHORIZATION)
                \/ Includes(errorMessage, STR_AUTHORIZATION_FAILED)
        THEN ErrorResponse(CLI_MSG_NO_PERMISSION)
        ELSE ErrorResponse(MSG_LIST_FAILED \o errorMessage)

CliTryCatch(result) ==
    IF Threw(result)
    THEN Return(CliCatchResponse(Val(result.thrown)))
    ELSE result

\* execSync(command) followed by JSON.parse of its output.  outcome is
\* [throws |-> message] when the command fails, else the output, with json
\* when it parses
ExecJson(outcome) ==
    IF Has(outcome, "throws")
    THEN Throw(NewError(outcome.throws))
    ELSE ParseJson(outcome)

\* part_002: execSync blocks, so the whole call is one step.  The second
\* command runs only when the first one named a resource group
CliCall(req, resourceListOutcome, deploymentsOutcome) ==
    /\ ServiceIdle
    /\ deploymentsRequest' = Some(req)
    /\ LET endpoint == req.endpoint
           resourceName == CliExtractResourceNameFromEndpoint(endpoint)
           resourceListCmd ==
               [kind |-> "execSync", command |-> "az resource list",
                name |-> Val(resourceName)]
           resourceInfo == ExecJson(resourceListOutcome)
           found ==
               /\ ~Threw(resourceInfo)
               /\ resourceInfo.value.kind = "object"
               /\ TruthyStr(resourceInfo.value, "resourceGroup")
           deploymentsCmd ==
               [kind |-> "execSync",
                command |-> "az cognitiveservices account deployment list",
                name |-> Val(resourceName),
                resourceGroup |-> resourceInfo.value.resourceGroup]
           parsed == ExecJson(deploymentsOutcome)
           block ==
               IF Threw(resourceInfo)
               THEN resourceInfo
               ELSE IF ~found
               THEN Return(ErrorResponse(CLI_MSG_RESOURCE_NOT_FOUND_HEAD
                                             \o Val(resourceName)
                                             \o CLI_MSG_RESOURCE_NOT_FOUND_TAIL))
               ELSE IF Threw(parsed)
               THEN parsed
               ELSE IF \/ parsed.value.kind # "array"
                       \/ Len(parsed.value.items) = 0
               THEN Return(ErrorResponse(CLI_MSG_NO_DEPLOYMENTS_FOUND))
               ELSE MapDeployments(parsed.value.items)
       IN  IF endpoint = << >>
           THEN /\ Finish(Return(ErrorResponse(MSG_NO_ENDPOINT)))
                /\ armLocals' = [variant |-> "cli"]
                /\ externalCalls' = << >>
           ELSE IF NoResourceName(resourceName)
           THEN /\ Finish(Return(ErrorResponse(CLI_MSG_NO_RESOURCE_NAME)))
                /\ armLocals' = [variant |-> "cli"]
                /\ externalCalls' = << >>
           ELSE /\ Finish(CliTryCatch(block))
                /\ armLocals' = [variant |-> "cli",
                                 resourceName |-> Val(resourceName)]
                /\ externalCalls' =
                     IF found
                     THEN << resourceListCmd, deploymentsCmd >>
                     ELSE << resourceListCmd >>
    /\ UNCHANGED << handlerVars, model, settingsVars, azureVars >>

\* https://my-res.openai.azure.com
ENDPOINT_MY_RES ==
    << "h","t","t","p","s",":","/","/","m","y","-","r","e","s",".","o","p",
       "e","n","a","i",".","a","z","u","r","e",".","c","o","m" >>

\* https://My-Res.cognitiveservices.azure.us/
ENDPOINT_MY_RES_GOV ==
    << "h","t","t","p","s",":","/","/","M","y","-","R","e","s",".","c","o",
       "g","n","i","t","i","v","e","s","e","r","v","i","c","e","s",".","a",
       "z","u","r","e",".","u","s","/" >>

\* https://my'res.openai.azure.com
ENDPOINT_QUOTE ==
    << "h","t","t","p","s",":","/","/","m","y","'","r","e","s",".","o","p",
       "e","n","a","i",".","a","z","u","r","e",".","c","o","m" >>

\* https://stack01.local:8443/openai
ENDPOINT_STACK_HUB ==
    << "h","t","t","p","s",":","/","/","s","t","a","c","k","0","1",".","l",
       "o","c","a","l",":","8","4","4","3","/","o","p","e","n","a","i" >>

\* my-res.openai.azure.com
ENDPOINT_NO_SCHEME ==
    << "m","y","-","r","e","s",".","o","p","e","n","a","i",".","a","z","u",
       "r","e",".","c","o","m" >>

\* https://arm.stack.local/
ARM_ENDPOINT_STACK ==
    << "h","t","t","p","s",":","/","/","a","r","m",".","s","t","a","c","k",
       ".","l","o","c","a","l","/" >>

\* /subscriptions/s1/resourceGroups/rg/providers/Microsoft.CognitiveServi
\* ces/accounts/my-res
RESOURCE_ID ==
    << "/","s","u","b","s","c","r","i","p","t","i","o","n","s","/","s","1",
       "/","r","e","s","o","u","r","c","e","G","r","o","u","p","s","/","r",
       "g","/","p","r","o","v","i","d","e","r","s","/","M","i","c","r","o",
       "s","o","f","t",".","C","o","g","n","i","t","i","v","e","S","e","r",
       "v","i","c","e","s","/","a","c","c","o","u","n","t","s","/","m","y",
       "-","r","e","s" >>

\* CredentialUnavailableError: no credential
ERR_CREDENTIAL ==
    << "C","r","e","d","e","n","t","i","a","l","U","n","a","v","a","i","l",
       "a","b","l","e","E","r","r","o","r",":"," ","n","o"," ","c","r","e",
       "d","e","n","t","i","a","l" >>

\* /bin/sh: 1: az: command not found
ERR_AZ_MISSING ==
    << "/","b","i","n","/","s","h",":"," ","1",":"," ","a","z",":"," ","c",
       "o","m","m","a","n","d"," ","n","o","t"," ","f","o","u","n","d" >>

\* ERROR: Please run 'az login' to setup account.
ERR_AZ_LOGIN ==
    << "E","R","R","O","R",":"," ","P","l","e","a","s","e"," ","r","u","n",
       " ","'","a","z"," ","l","o","g","i","n","'"," ","t","o"," ","s","e",
       "t","u","p"," ","a","c","c","o","u","n","t","." >>

\* (AuthorizationFailed) The client does not have authorization
ERR_AZ_DENIED ==
    << "(","A","u","t","h","o","r","i","z","a","t","i","o","n","F","a","i",
       "l","e","d",")"," ","T","h","e"," ","c","l","i","e","n","t"," ","d",
       "o","e","s"," ","n","o","t"," ","h","a","v","e"," ","a","u","t","h",
       "o","r","i","z","a","t","i","o","n" >>

\* Forbidden
STATUS_TEXT_FORBIDDEN ==
    << "F","o","r","b","i","d","d","e","n" >>

\* denied
BODY_DENIED ==
    << "d","e","n","i","e","d" >>

(***************************************************************************)
(* The deployment service: requests and outcomes                             *)
(***************************************************************************)
ServiceEndpoints ==
    {<< >>, ENDPOINT_MY_RES, ENDPOINT_MY_RES_GOV, ENDPOINT_QUOTE,
     ENDPOINT_STACK_HUB, ENDPOINT_NO_SCHEME}

ServiceRequests ==
    {[endpoint |-> e] : e \in ServiceEndpoints}
        \cup {[endpoint |-> ENDPOINT_STACK_HUB,
               armEndpoint |-> ARM_ENDPOINT_STACK],
              [endpoint |-> ENDPOINT_MY_RES_GOV, armEndpoint |-> << >>]}

ACCESS_TOKEN == << "t","o","k" >>

TokenOutcomes ==
    {[rejected |-> ERR_CREDENTIAL], [rejected |-> ERR_ENOTFOUND],
     [token |-> None], [token |-> Some(ACCESS_TOKEN)]}

JSON_NULL == [kind |-> "null"]

JsonArray(items) == [kind |-> "array", items |-> items]

HTTP_FORBIDDEN ==
    [ok |-> FALSE, status |-> << "4","0","3" >>,
     statusText |-> STATUS_TEXT_FORBIDDEN, text |-> BODY_DENIED]

GraphOutcomes ==
    {[rejected |-> ERR_ENOTFOUND],
     HTTP_FORBIDDEN,
     [ok |-> TRUE],
     [ok |-> TRUE, json |-> JSON_NULL],
     [ok |-> TRUE, json |-> [kind |-> "object"]],
     [ok |-> TRUE, json |-> [kind |-> "object", data |-> JSON_NULL]],
     [ok |-> TRUE, json |-> [kind |-> "object", data |-> JsonArray(<< >>)]],
     [ok |-> TRUE, json |-> [kind |-> "object", data |-> [kind |-> "object"]]],
     [ok |-> TRUE,
      json |-> [kind |-> "object",
                data |-> JsonArray(<< [kind |-> "object",
                                       id |-> RESOURCE_ID] >>)]]}

LISTED_PROD ==
    [kind |-> "object", name |-> DEP_PROD,
     properties |-> [model |-> [name |-> DEP_GPT_4O,
                                version |-> << "2","0","2","4" >>]]]

LISTED_O1 == [kind |-> "object", name |-> DEP_O1]

DeploymentArrays ==
    {<< >>, << LISTED_PROD, LISTED_O1 >>, << LISTED_PROD, JSON_NULL >>}

ListOutcomes ==
    {[rejected |-> ERR_ENOTFOUND],
     HTTP_FORBIDDEN,
     [ok |-> TRUE],
     [ok |-> TRUE, json |-> JSON_NULL],
     [ok |-> TRUE, json |-> [kind |-> "object"]],
     [ok |-> TRUE, json |-> [kind |-> "object", value |-> [kind |-> "object"]]]}
        \cup {[ok |-> TRUE,
               json |-> [kind |-> "object", value |-> JsonArray(a)]] :
                 a \in DeploymentArrays}

RESOURCE_GROUP == << "r","g" >>

ResourceListOutcomes ==
    {[throws |-> ERR_AZ_MISSING], [throws |-> ERR_AZ_LOGIN],
     [throws |-> ERR_AZ_DENIED], [throws |-> ERR_ENOTFOUND],
     [exit |-> 0],
     [exit |-> 0, json |-> JSON_NULL],
     [exit |-> 0, json |-> [kind |-> "object"]],
     [exit |-> 0, json |-> [kind |-> "object", resourceGroup |-> << >>]],
     [exit |-> 0,
      json |-> [kind |-> "object", resourceGroup |-> RESOURCE_GROUP]]}

DeploymentListOutcomes ==
    {[throws |-> ERR_AZ_DENIED],
     [exit |-> 0],
     [exit |-> 0, json |-> JSON_NULL],
     [exit |-> 0, json |-> [kind |-> "object"]]}
        \cup {[exit |-> 0, json |-> JsonArray(a)] : a \in DeploymentArrays}

\* The outcomes of the second command that can follow an outcome of the
\* first: the second command is not run, and so has no outcome to choose,
\* unless the first one named a resource group
OutcomesAfter(resourceListOutcome) ==
    IF /\ Has(resourceListOutcome, "json")
       /\ resourceListOutcome.json.kind = "object"
       /\ TruthyStr(resourceListOutcome.json, "resourceGroup")
    THEN DeploymentListOutcomes
    ELSE {[exit |-> 0]}

\* Requests to the deployment service, in either variant, one after the
\* other, with every outcome of the credential, of Resource Graph, of the
\* deployment listing and of the two CLI commands
InitDeployments ==
    /\ InitHandler(BASE_OPTIONS)
    /\ InitOther
    /\ InitSettings(EmptyObject)
    /\ InitAzure
    /\ InitService

NextDeployments ==
    \/ \E r \in ServiceRequests : ArmCall(r)
    \/ \E o \in TokenOutcomes : ArmTokenResult(o)
    \/ \E o \in GraphOutcomes : ArmGraphResult(o)
    \/ \E o \in ListOutcomes : ArmListResult(o)
    \/ \E r \in ServiceRequests : \E o1 \in ResourceListOutcomes :
           \E o2 \in OutcomesAfter(o1) : CliCall(r, o1, o2)

SpecDeployments == InitDeployments /\ [][NextDeployments]_vars

\* C27: getMicrosoftFoundryDeployments never throws: whatever the request
\* and whatever the outcome of the credential, Resource Graph, deployment
\* listing and CLI calls, a finished call returned a response, and the
\* response has its error set exactly when its deployments list is empty.
C27_NeverThrows ==
    IsSome(deploymentsResult) =>
        LET result == Val(deploymentsResult)
        IN  /\ ~Threw(result)
            /\ TruthyStr(result.value, "error")
                   <=> result.value.deployments = << >>

\* A call reached the deployment listing, the listing failed, and the call
\* returned an error response
C27_Witness ==
    /\ armPc = "returned"
    /\ armLocals.variant = "arm"
    /\ Len(externalCalls) = 3
    /\ IsSome(deploymentsResult)
    /\ ~Threw(Val(deploymentsResult))
    /\ TruthyStr(Val(deploymentsResult).value, "error")
    /\ StartsWith(Val(deploymentsResult).value.error,
                  MSG_REFERENCE_ERROR \o MSG_LIST_FAILED)

\* The kinds of calls of the ARM variant, in the order of the code
ArmSteps == << "getToken", "POST", "GET" >>

StepOf(call) == IF call.kind = "getToken" THEN "getToken" ELSE call.method

\* C28: in the ARM variant the calls are made in the order token, Resource
\* Graph query, deployment listing; any call at all requires a non-empty
\* endpoint whose resource name has only letters, digits and hyphens; the
\* listing is requested only after a successful Resource Graph answer with
\* at least one resource; and the token is requested for the chosen
\* management endpoint followed by "/.default".
C28_StepOrder ==
    (IsSome(deploymentsRequest) /\ armLocals.variant = "arm") =>
        /\ Len(externalCalls) <= 3
        /\ \A i \in DOMAIN externalCalls : StepOf(externalCalls[i]) = ArmSteps[i]
        /\ externalCalls # << >> =>
              /\ Val(deploymentsRequest).endpoint # << >>
              /\ armLocals.resourceName # << >>
              /\ \A i \in DOMAIN armLocals.resourceName :
                     armLocals.resourceName[i] \in NameChars
              /\ externalCalls[1].scope =
                     armLocals.managementEndpoint \o STR_SLASH_DEFAULT
              /\ \A i \in DOMAIN externalCalls :
                     externalCalls[i].kind = "fetch" =>
                         StartsWith(externalCalls[i].url,
                                    armLocals.managementEndpoint)
        /\ Len(externalCalls) = 3 =>
              /\ TruthyBool(armLocals, "argResponseOk")
              /\ Len(armLocals.resources) >= 1

\* The deployment listing was requested through a custom ARM endpoint
C28_Witness ==
    /\ Len(externalCalls) = 3
    /\ armLocals.variant = "arm"
    /\ TruthyStr(Val(deploymentsRequest), "armEndpoint")
    /\ externalCalls[1].scope # MANAGEMENT_COMMERCIAL_SCOPE

NoDeploymentSelected == ~TruthyStr(options, "microsoftFoundryDeploymentId")

\* C30: on a handler with no deployment selected no provider request is ever
\* sent and no event is ever delivered, and an attempt of createMessage
\* fails at once: with the endpoint configuration error when the endpoint
\* is missing too (the client is provisioned first), and with the "No
\* deployment selected" error once the client is provisioned.
C30_NoDeploymentSelected ==
    /\ [](NoDeploymentSelected =>
            /\ providerCalls = 0
            /\ IsNone(request)
            /\ delivered = << >>
            /\ stream = "none")
    /\ [][ (NoDeploymentSelected /\ pc = "start" /\ pc' # "start") =>
             /\ pc' = "failed"
             /\ IsSome(surfaced')
             /\ ~TruthyStr(options, "microsoftFoundryEndpoint") =>
                    Val(surfaced').message = MSG_ENDPOINT_REQUIRED
             /\ IsSome(client') =>
                    Val(surfaced').message = MSG_NO_DEPLOYMENT ]_vars

\* A call on a handler with endpoint and API key but no deployment failed
\* with the "No deployment selected" error
C30_Witness ==
    /\ NoDeploymentSelected
    /\ pc = "failed"
    /\ IsSome(client)
    /\ IsSome(surfaced)
    /\ Val(surfaced).message = MSG_NO_DEPLOYMENT
    /\ providerCalls = 0

====
